---------------------------- MODULE Spec2Model ----------------------------
(***************************************************************************)
(* The question-answering gateway of tcm-lung-mvp: src/app.py and its      *)
(* sibling endpoint variant src/app_test.py.                               *)
(*                                                                         *)
(* A Python str is modelled as a sequence of characters, each element one  *)
(* character: an ASCII character stands for itself, a CJK character is     *)
(* written in pinyin ("zheng4" "xing2" "wei2" is 证型为) and a fullwidth or  *)
(* typographic punctuation mark by its code point. The regular            *)
(* expressions of the source are computed character by character on those *)
(* sequences.                                                              *)
(***************************************************************************)
EXTENDS Integers, Sequences, FiniteSets, TLC

VARIABLES
    vq,         \* is_safe_cypher: the query string handed to the validator
    vsafe,      \* verdict of src/app.py's is_safe_cypher      ("none" before the call)
    vsafeTest,  \* verdict of src/app_test.py's is_safe_cypher ("none" before the call)
    fq,         \* auto_fix_cypher: the candidate handed to the repair engine
    fout,       \* auto_fix_cypher: <<>> before the call, <<the returned query>> after it
    variant,    \* the endpoint module that is deployed: "app" or "app_test"
    llm_ready,  \* whether the OpenAI client was configured at start-up
    LAST_CONTEXT,   \* session id -> None or the context of the session's last turn
    pc,         \* request -> the position of its ask handler
    req,        \* request -> the parameters and locals of its ask handler
    bq,         \* the question whose final query is built
    braw,       \* the generator's text for that question
    bout,       \* <<>> before the final query is built, <<the final query>> after it
    aq,         \* format_answer: the question
    arows,      \* format_answer: the result rows
    aout        \* format_answer: <<>> before the call, <<what the call gave>> after it

validateVars == <<vq, vsafe, vsafeTest>>
fixVars == <<fq, fout>>
askVars == <<variant, llm_ready, LAST_CONTEXT, pc, req>>
buildVars == <<bq, braw, bout>>
formatVars == <<aq, arows, aout>>
vars == <<vq, vsafe, vsafeTest, fq, fout, variant, llm_ready, LAST_CONTEXT, pc, req,
          bq, braw, bout, aq, arows, aout>>

\* Python's None and a value that is present.
None == <<>>
Some(x) == <<x>>

(***************************************************************************)
(* Characters.                                                             *)
(***************************************************************************)

\* The characters of the model's alphabet that Python's \s, str.strip() match.
SpaceChars == {" ", "\t", "\n"}

\* The characters of the model's alphabet at which str.splitlines() breaks.
LineBreaks == {"\n"}

\* The characters of the model's alphabet that are not \w (letters, digits, "_" and
\* the CJK characters are \w for a Python 3 str pattern).
\* Characters written by their code point: the backtick, the fullwidth comma, the
\* ideographic full stop and the left and right double quotation marks.
Backtick == "U+0060"
FullComma == "U+FF0C"
FullStop == "U+3002"
LeftDQuote == "U+201C"
RightDQuote == "U+201D"

PunctChars ==
    {".", ",", "(", ")", "[", "]", "{", "}", ":", "'", "-", ">", "<", "=", "*", "+", "/",
     Backtick, FullComma, FullStop, LeftDQuote, RightDQuote}

IsSpace(c) == c \in SpaceChars

IsWord(c) == c \notin SpaceChars /\ c \notin PunctChars

LowerOf ==
    [A |-> "a", B |-> "b", C |-> "c", D |-> "d", E |-> "e", F |-> "f", G |-> "g",
     H |-> "h", I |-> "i", J |-> "j", K |-> "k", L |-> "l", M |-> "m", N |-> "n",
     O |-> "o", P |-> "p", Q |-> "q", R |-> "r", S |-> "s", T |-> "t", U |-> "u",
     V |-> "v", W |-> "w", X |-> "x", Y |-> "y", Z |-> "z"]

\* re.IGNORECASE: characters are compared after case folding.
Lower(c) == IF c \in DOMAIN LowerOf THEN LowerOf[c] ELSE c

(***************************************************************************)
(* String helpers (str.strip, str.splitlines, concatenation).              *)
(***************************************************************************)

RECURSIVE Flatten(_)
\* "".join(parts)
Flatten(parts) == IF parts = <<>> THEN <<>> ELSE Head(parts) \o Flatten(Tail(parts))

\* in[k] tells whether the k-th character is of a class: the index after the longest
\* run of the class from index i on (i itself when the character at i is not of the
\* class, or when i is past the end).
SkipRun(in, i) ==
    IF i > Len(in) THEN i
    ELSE CHOOSE j \in i..(Len(in) + 1) :
             /\ j > Len(in) \/ ~in[j]
             /\ \A k \in i..(j - 1) : in[k]

\* The first index >= i of s that holds no whitespace (Len(s)+1 when there is none).
SkipSpaces(s, i) == SkipRun([k \in 1..Len(s) |-> IsSpace(s[k])], i)

\* The last index <= i of s that holds no whitespace (0 when there is none).
LastNonSpace(s, i) ==
    IF i < 1 THEN i
    ELSE CHOOSE j \in 0..i :
             /\ j = 0 \/ ~IsSpace(s[j])
             /\ \A k \in (j + 1)..i : IsSpace(s[k])

\* str.strip()
Strip(s) == SubSeq(s, SkipSpaces(s, 1), LastNonSpace(s, Len(s)))

\* The first index >= i of s that holds a line break (Len(s)+1 when there is none).
NextBreak(s, i) == SkipRun([k \in 1..Len(s) |-> s[k] \notin LineBreaks], i)

RECURSIVE SplitFrom(_, _)
SplitFrom(s, i) ==
    IF i > Len(s) THEN <<>>
    ELSE LET j == NextBreak(s, i)
         IN  <<SubSeq(s, i, j - 1)>> \o SplitFrom(s, j + 1)

\* str.splitlines()
SplitLines(s) == SplitFrom(s, 1)

\* [l.strip() for l in cypher.splitlines() if l.strip()]
StrippedLines(s) ==
    LET ls == SplitLines(s)
    IN  SelectSeq([k \in 1..Len(ls) |-> Strip(ls[k])], LAMBDA l : l # <<>>)

(***************************************************************************)
(* Regular expressions: a pattern is a sequence of lower-case literal     *)
(* characters and of the items WS, one or more whitespace characters,     *)
(* and WS0, any number of them.                                            *)
(***************************************************************************)

WS == "\\s+"

WS0 == "\\s*"

RECURSIVE MatchEnd(_, _, _, _)
\* The pattern items k.. of pat matched at index i of s, case-insensitively: the index
\* after the match, or 0 when there is no match. (\s+ and \s* are followed by a
\* literal that is not whitespace or end the pattern, so the greedy match is the only
\* one.)
MatchEnd(s, i, pat, k) ==
    IF k > Len(pat) THEN i
    ELSE IF pat[k] = WS0 THEN MatchEnd(s, SkipSpaces(s, i), pat, k + 1)
    ELSE IF pat[k] = WS
         THEN IF i <= Len(s) /\ IsSpace(s[i])
              THEN MatchEnd(s, SkipSpaces(s, i), pat, k + 1)
              ELSE 0
         ELSE IF i <= Len(s) /\ Lower(s[i]) = pat[k]
              THEN MatchEnd(s, i + 1, pat, k + 1)
              ELSE 0

\* \b between s[i-1] and s[i]
WordBoundary(s, i) ==
    LET before == i > 1 /\ i - 1 <= Len(s) /\ IsWord(s[i - 1])
        after  == i >= 1 /\ i <= Len(s) /\ IsWord(s[i])
    IN  before # after

(***************************************************************************)
(* src/app.py: the safety validator.                                       *)
(***************************************************************************)

READ_ONLY_OK ==
    { <<"c", "a", "l", "l">>,
      <<"m", "a", "t", "c", "h">>,
      <<"o", "p", "t", "i", "o", "n", "a", "l", WS, "m", "a", "t", "c", "h">>,
      <<"w", "i", "t", "h">>,
      <<"u", "n", "w", "i", "n", "d">>,
      <<"r", "e", "t", "u", "r", "n">>,
      <<"w", "h", "e", "r", "e">>,
      <<"o", "r", "d", "e", "r", WS, "b", "y">>,
      <<"l", "i", "m", "i", "t">>,
      <<"s", "k", "i", "p">>,
      <<"p", "r", "o", "f", "i", "l", "e">>,
      <<"e", "x", "p", "l", "a", "i", "n">>,
      <<"u", "n", "i", "o", "n">> }

MUTATING_BAD ==
    { <<"c", "r", "e", "a", "t", "e">>,
      <<"m", "e", "r", "g", "e">>,
      <<"s", "e", "t">>,
      <<"d", "e", "l", "e", "t", "e">>,
      <<"d", "e", "t", "a", "c", "h", WS, "d", "e", "l", "e", "t", "e">>,
      <<"r", "e", "m", "o", "v", "e">>,
      <<"d", "r", "o", "p">>,
      <<"l", "o", "a", "d", WS, "c", "s", "v">>,
      <<"a", "p", "o", "c", ".">>,
      <<"c", "a", "l", "l", WS, "d", "b", "m", "s">>,
      <<"c", "a", "l", "l", WS, "d", "b", ".", "i", "n", "d", "e", "x", ".">>,
      <<"c", "a", "l", "l", WS, "d", "b", ".">> }

\* re.compile(r"\b(alt1|alt2|...)\b", re.IGNORECASE).search(s)
BoundedSearch(alts, s) ==
    \E i \in 1..Len(s) :
        /\ WordBoundary(s, i)
        /\ \E p \in alts :
              LET e == MatchEnd(s, i, p, 1) IN e # 0 /\ WordBoundary(s, e)

\* re.compile(r"^\s*(alt1|alt2|...)\b", re.IGNORECASE).match(line)
LeadingMatch(alts, line) ==
    LET i == SkipSpaces(line, 1)
    IN  \E p \in alts :
            LET e == MatchEnd(line, i, p, 1) IN e # 0 /\ WordBoundary(line, e)

\* A validator that rejects a query with no non-empty line.
is_safe_cypher_some_line(cypher) ==
    IF BoundedSearch(MUTATING_BAD, cypher) THEN FALSE
    ELSE LET ls == StrippedLines(cypher)
         IN  ls # <<>> /\ \A k \in 1..Len(ls) : LeadingMatch(READ_ONLY_OK, ls[k])

\* A validator that checks only the first non-empty line against the allow-list.
is_safe_cypher_first_line(cypher) ==
    IF BoundedSearch(MUTATING_BAD, cypher) THEN FALSE
    ELSE LET ls == StrippedLines(cypher)
         IN  ls = <<>> \/ LeadingMatch(READ_ONLY_OK, ls[1])

is_safe_cypher(cypher) ==
    IF BoundedSearch(MUTATING_BAD, cypher) THEN FALSE
    ELSE LET ls == StrippedLines(cypher)
         IN  \A k \in 1..Len(ls) : LeadingMatch(READ_ONLY_OK, ls[k])

(***************************************************************************)
(* src/app_test.py: the safety validator of the sibling variant.           *)
(***************************************************************************)

READ_ONLY_OK_test ==
    { <<"c", "a", "l", "l">>,
      <<"m", "a", "t", "c", "h">>,
      <<"o", "p", "t", "i", "o", "n", "a", "l", WS, "m", "a", "t", "c", "h">>,
      <<"w", "i", "t", "h">>,
      <<"u", "n", "w", "i", "n", "d">>,
      <<"r", "e", "t", "u", "r", "n">>,
      <<"w", "h", "e", "r", "e">>,
      <<"o", "r", "d", "e", "r", WS, "b", "y">>,
      <<"l", "i", "m", "i", "t">>,
      <<"s", "k", "i", "p">>,
      <<"u", "n", "i", "o", "n">> }

MUTATING_BAD_test ==
    { <<"c", "r", "e", "a", "t", "e">>,
      <<"m", "e", "r", "g", "e">>,
      <<"s", "e", "t">>,
      <<"d", "e", "l", "e", "t", "e">>,
      <<"d", "e", "t", "a", "c", "h", WS, "d", "e", "l", "e", "t", "e">>,
      <<"r", "e", "m", "o", "v", "e">>,
      <<"d", "r", "o", "p">>,
      <<"a", "p", "o", "c", ".">>,
      <<"c", "a", "l", "l", WS, "d", "b", ".">> }

is_safe_cypher_test(cypher) ==
    IF BoundedSearch(MUTATING_BAD_test, cypher) THEN FALSE
    ELSE LET ls == StrippedLines(cypher)
         IN  \A k \in 1..Len(ls) : LeadingMatch(READ_ONLY_OK_test, ls[k])

(***************************************************************************)
(* Literal search and the lazy capture of "head(.+?)tail".                 *)
(***************************************************************************)

\* s[i:].startswith(lit)
LitAt(s, i, lit) ==
    /\ i >= 1
    /\ i + Len(lit) - 1 <= Len(s)
    /\ SubSeq(s, i, i + Len(lit) - 1) = lit

\* lit in s
Contains(s, lit) == \E i \in 1..Len(s) : LitAt(s, i, lit)

\* The least element of a non-empty set of integers.
Least(S) == CHOOSE x \in S : \A y \in S : x <= y

\* The group of (.+?) starts at g and "." matches no "\n": the indices j at which
\* tail follows a group s[g]..s[j-1] of at least one character.
TailsAfter(s, g, tail) ==
    { j \in (g + 1)..Len(s) :
        LitAt(s, j, tail) /\ \A k \in g..(j - 1) : s[k] # "\n" }

\* re.search(head + "(.+?)" + tail, s): group 1 of the match, <<>> when there is none
\* (the group of a match holds at least one character). The search takes the leftmost
\* head that has a match, the lazy group the nearest tail.
LazyGroup(s, head, tail) ==
    LET starts == { i \in 1..Len(s) :
                      LitAt(s, i, head) /\ TailsAfter(s, i + Len(head), tail) # {} }
    IN  IF starts = {} THEN <<>>
        ELSE LET g == Least(starts) + Len(head)
             IN  SubSeq(s, g, Least(TailsAfter(s, g, tail)) - 1)

\* str.replace(c, "") for every c of chars
RemoveChars(s, chars) == SelectSeq(s, LAMBDA c : c \notin chars)

(***************************************************************************)
(* The domain phrases of the templates.                                    *)
(***************************************************************************)

ZhengXingWei == <<"zheng4", "xing2", "wei2">>    \* 证型为
YaoFangWei == <<"yao4", "fang1", "wei2">>    \* 药方为
JiBingWei == <<"ji2", "bing4", "wei2">>    \* 疾病为
DeAnLiZhong == <<"de", "an4", "li4", "zhong1">>    \* 的案例中
YaoFang == <<"yao4", "fang1">>    \* 药方
ChuFang == <<"chu3", "fang1">>    \* 处方
ZhongYao == <<"zhong1", "yao4">>    \* 中药
JiLiang == <<"ji4", "liang4">>    \* 剂量
PaoZhi == <<"pao2", "zhi4">>    \* 炮制
ZhengXing == <<"zheng4", "xing2">>    \* 证型
JiBing == <<"ji2", "bing4">>    \* 疾病
BingMing == <<"bing4", "ming2">>    \* 病名
YaoWu == <<"yao4", "wu4">>    \* 药物

(***************************************************************************)
(* The canonical queries of the templates.                                 *)
(***************************************************************************)

\* src/app.py lines 336-338
CypherZhengxingPrescription(zname) ==
    Flatten(<<
        <<"M", "A", "T", "C", "H", " ", "(", "c", ":", "C", "a", "s", "e", ")", "-", "[",
          ":", "H", "A", "S", "_", "Z", "H", "E", "N", "G", "X", "I", "N", "G", "]", "-",
          ">", "(", "z", ":", "Z", "h", "e", "n", "g", "X", "i", "n", "g", " ", "{", "n",
          "a", "m", "e", ":", "'">>,
        zname,
        <<"'", "}", ")", " ", "M", "A", "T", "C", "H", " ", "(", "c", ")", "-", "[", ":",
          "H", "A", "S", "_", "P", "R", "E", "S", "C", "R", "I", "P", "T", "I", "O", "N",
          "]", "-", ">", "(", "p", ":", "P", "r", "e", "s", "c", "r", "i", "p", "t", "i",
          "o", "n", ")", " ", "R", "E", "T", "U", "R", "N", " ", "p", ".", "f", "o", "r",
          "m", "u", "l", "a", " ", "A", "S", " ", "chu3", "fang1", ",", " ", "c", "o", "u",
          "n", "t", "(", "D", "I", "S", "T", "I", "N", "C", "T", " ", "c", ")", " ", "A",
          "S", " ", "pin2", "ci4", " ", "O", "R", "D", "E", "R", " ", "B", "Y", " ", "pin2",
          "ci4", " ", "D", "E", "S", "C">> >>)

\* src/app.py lines 347-349
CypherZhengxingHerb(zname) ==
    Flatten(<<
        <<"M", "A", "T", "C", "H", " ", "(", "c", ":", "C", "a", "s", "e", ")", "-", "[",
          ":", "H", "A", "S", "_", "Z", "H", "E", "N", "G", "X", "I", "N", "G", "]", "-",
          ">", "(", "z", ":", "Z", "h", "e", "n", "g", "X", "i", "n", "g", " ", "{", "n",
          "a", "m", "e", ":", "'">>,
        zname,
        <<"'", "}", ")", " ", "M", "A", "T", "C", "H", " ", "(", "c", ")", "-", "[", ":",
          "H", "A", "S", "_", "P", "R", "E", "S", "C", "R", "I", "P", "T", "I", "O", "N",
          "]", "-", ">", "(", "p", ":", "P", "r", "e", "s", "c", "r", "i", "p", "t", "i",
          "o", "n", ")", "-", "[", ":", "C", "O", "N", "T", "A", "I", "N", "S", "_", "H",
          "E", "R", "B", "]", "-", ">", "(", "h", ":", "H", "e", "r", "b", ")", " ", "R",
          "E", "T", "U", "R", "N", " ", "h", ".", "n", "a", "m", "e", " ", "A", "S", " ",
          "zhong1", "yao4", ",", " ", "c", "o", "u", "n", "t", "(", "D", "I", "S", "T", "I",
          "N", "C", "T", " ", "c", ")", " ", "A", "S", " ", "pin2", "ci4", " ", "O", "R",
          "D", "E", "R", " ", "B", "Y", " ", "pin2", "ci4", " ", "D", "E", "S", "C">> >>)

\* src/app.py lines 362-364
CypherZhengxingHerbDose(zname, hname) ==
    Flatten(<<
        <<"M", "A", "T", "C", "H", " ", "(", "c", ":", "C", "a", "s", "e", ")", "-", "[",
          ":", "H", "A", "S", "_", "Z", "H", "E", "N", "G", "X", "I", "N", "G", "]", "-",
          ">", "(", "z", ":", "Z", "h", "e", "n", "g", "X", "i", "n", "g", " ", "{", "n",
          "a", "m", "e", ":", "'">>,
        zname,
        <<"'", "}", ")", " ", "M", "A", "T", "C", "H", " ", "(", "c", ")", "-", "[", ":",
          "H", "A", "S", "_", "P", "R", "E", "S", "C", "R", "I", "P", "T", "I", "O", "N",
          "]", "-", ">", "(", "p", ":", "P", "r", "e", "s", "c", "r", "i", "p", "t", "i",
          "o", "n", ")", "-", "[", "r", ":", "C", "O", "N", "T", "A", "I", "N", "S", "_",
          "H", "E", "R", "B", "]", "-", ">", "(", "h", ":", "H", "e", "r", "b", " ", "{",
          "n", "a", "m", "e", ":", "'">>,
        hname,
        <<"'", "}", ")", " ", "R", "E", "T", "U", "R", "N", " ", "D", "I", "S", "T", "I",
          "N", "C", "T", " ", "h", ".", "n", "a", "m", "e", " ", "A", "S", " ", "zhong1",
          "yao4", ",", " ", "r", ".", "d", "o", "s", "e", " ", "A", "S", " ", "ji4",
          "liang4", ",", " ", "r", ".", "p", "r", "e", "p", " ", "A", "S", " ", "pao2",
          "zhi4", "fang1", "fa3">> >>)

\* src/app.py lines 373-375
CypherFormulaZhengxing(formula) ==
    Flatten(<<
        <<"M", "A", "T", "C", "H", " ", "(", "c", ":", "C", "a", "s", "e", ")", "-", "[",
          ":", "H", "A", "S", "_", "P", "R", "E", "S", "C", "R", "I", "P", "T", "I", "O",
          "N", "]", "-", ">", "(", "p", ":", "P", "r", "e", "s", "c", "r", "i", "p", "t",
          "i", "o", "n", " ", "{", "f", "o", "r", "m", "u", "l", "a", ":", "'">>,
        formula,
        <<"'", "}", ")", " ", "M", "A", "T", "C", "H", " ", "(", "c", ")", "-", "[", ":",
          "H", "A", "S", "_", "Z", "H", "E", "N", "G", "X", "I", "N", "G", "]", "-", ">",
          "(", "z", ":", "Z", "h", "e", "n", "g", "X", "i", "n", "g", ")", " ", "R", "E",
          "T", "U", "R", "N", " ", "z", ".", "n", "a", "m", "e", " ", "A", "S", " ",
          "zheng4", "xing2", ",", " ", "c", "o", "u", "n", "t", "(", "D", "I", "S", "T", "I",
          "N", "C", "T", " ", "c", ")", " ", "A", "S", " ", "pin2", "ci4", " ", "O", "R",
          "D", "E", "R", " ", "B", "Y", " ", "pin2", "ci4", " ", "D", "E", "S", "C">> >>)

\* src/app.py lines 384-386
CypherFormulaDisease(formula) ==
    Flatten(<<
        <<"M", "A", "T", "C", "H", " ", "(", "c", ":", "C", "a", "s", "e", ")", "-", "[",
          ":", "H", "A", "S", "_", "P", "R", "E", "S", "C", "R", "I", "P", "T", "I", "O",
          "N", "]", "-", ">", "(", "p", ":", "P", "r", "e", "s", "c", "r", "i", "p", "t",
          "i", "o", "n", " ", "{", "f", "o", "r", "m", "u", "l", "a", ":", "'">>,
        formula,
        <<"'", "}", ")", " ", "M", "A", "T", "C", "H", " ", "(", "c", ")", "-", "[", ":",
          "H", "A", "S", "_", "D", "I", "A", "G", "N", "O", "S", "I", "S", "]", "-", ">",
          "(", "d", ":", "D", "i", "a", "g", "n", "o", "s", "i", "s", ")", " ", "R", "E",
          "T", "U", "R", "N", " ", "d", ".", "n", "a", "m", "e", " ", "A", "S", " ", "ji2",
          "bing4", ",", " ", "c", "o", "u", "n", "t", "(", "D", "I", "S", "T", "I", "N", "C",
          "T", " ", "c", ")", " ", "A", "S", " ", "pin2", "ci4", " ", "O", "R", "D", "E",
          "R", " ", "B", "Y", " ", "pin2", "ci4", " ", "D", "E", "S", "C">> >>)

\* src/app.py lines 395-396
CypherFormulaHerb(formula) ==
    Flatten(<<
        <<"M", "A", "T", "C", "H", " ", "(", "c", ":", "C", "a", "s", "e", ")", "-", "[",
          ":", "H", "A", "S", "_", "P", "R", "E", "S", "C", "R", "I", "P", "T", "I", "O",
          "N", "]", "-", ">", "(", "p", ":", "P", "r", "e", "s", "c", "r", "i", "p", "t",
          "i", "o", "n", " ", "{", "f", "o", "r", "m", "u", "l", "a", ":", "'">>,
        formula,
        <<"'", "}", ")", "-", "[", ":", "C", "O", "N", "T", "A", "I", "N", "S", "_", "H",
          "E", "R", "B", "]", "-", ">", "(", "h", ":", "H", "e", "r", "b", ")", " ", "R",
          "E", "T", "U", "R", "N", " ", "h", ".", "n", "a", "m", "e", " ", "A", "S", " ",
          "zhong1", "yao4", ",", " ", "c", "o", "u", "n", "t", "(", "D", "I", "S", "T", "I",
          "N", "C", "T", " ", "c", ")", " ", "A", "S", " ", "pin2", "ci4", " ", "O", "R",
          "D", "E", "R", " ", "B", "Y", " ", "pin2", "ci4", " ", "D", "E", "S", "C">> >>)

\* src/app.py lines 405-407
CypherDiseaseHerb(dname) ==
    Flatten(<<
        <<"M", "A", "T", "C", "H", " ", "(", "c", ":", "C", "a", "s", "e", ")", "-", "[",
          ":", "H", "A", "S", "_", "D", "I", "A", "G", "N", "O", "S", "I", "S", "]", "-",
          ">", "(", "d", ":", "D", "i", "a", "g", "n", "o", "s", "i", "s", " ", "{", "n",
          "a", "m", "e", ":", "'">>,
        dname,
        <<"'", "}", ")", " ", "M", "A", "T", "C", "H", " ", "(", "c", ")", "-", "[", ":",
          "H", "A", "S", "_", "P", "R", "E", "S", "C", "R", "I", "P", "T", "I", "O", "N",
          "]", "-", ">", "(", "p", ":", "P", "r", "e", "s", "c", "r", "i", "p", "t", "i",
          "o", "n", ")", "-", "[", ":", "C", "O", "N", "T", "A", "I", "N", "S", "_", "H",
          "E", "R", "B", "]", "-", ">", "(", "h", ":", "H", "e", "r", "b", ")", " ", "R",
          "E", "T", "U", "R", "N", " ", "h", ".", "n", "a", "m", "e", " ", "A", "S", " ",
          "zhong1", "yao4", ",", " ", "c", "o", "u", "n", "t", "(", "D", "I", "S", "T", "I",
          "N", "C", "T", " ", "c", ")", " ", "A", "S", " ", "pin2", "ci4", " ", "O", "R",
          "D", "E", "R", " ", "B", "Y", " ", "pin2", "ci4", " ", "D", "E", "S", "C">> >>)

\* src/app.py lines 416-418
CypherDiseaseZhengxing(dname) ==
    Flatten(<<
        <<"M", "A", "T", "C", "H", " ", "(", "c", ":", "C", "a", "s", "e", ")", "-", "[",
          ":", "H", "A", "S", "_", "D", "I", "A", "G", "N", "O", "S", "I", "S", "]", "-",
          ">", "(", "d", ":", "D", "i", "a", "g", "n", "o", "s", "i", "s", " ", "{", "n",
          "a", "m", "e", ":", "'">>,
        dname,
        <<"'", "}", ")", " ", "M", "A", "T", "C", "H", " ", "(", "c", ")", "-", "[", ":",
          "H", "A", "S", "_", "Z", "H", "E", "N", "G", "X", "I", "N", "G", "]", "-", ">",
          "(", "z", ":", "Z", "h", "e", "n", "g", "X", "i", "n", "g", ")", " ", "R", "E",
          "T", "U", "R", "N", " ", "z", ".", "n", "a", "m", "e", " ", "A", "S", " ",
          "zheng4", "xing2", ",", " ", "c", "o", "u", "n", "t", "(", "D", "I", "S", "T", "I",
          "N", "C", "T", " ", "c", ")", " ", "A", "S", " ", "pin2", "ci4", " ", "O", "R",
          "D", "E", "R", " ", "B", "Y", " ", "pin2", "ci4", " ", "D", "E", "S", "C">> >>)


(***************************************************************************)
(* src/app.py: auto_fix_cypher.                                            *)
(***************************************************************************)

\* [\w\.\[\]]
IsExprChar(c) == IsWord(c) \/ c \in {".", "[", "]"}

\* The index after the longest run of [\w\.\[\]] that starts at i.
SkipExpr(s, i) == SkipRun([k \in 1..Len(s) |-> IsExprChar(s[k])], i)

\* The index after the longest run of \w that starts at i.
SkipWord(s, i) == SkipRun([k \in 1..Len(s) |-> IsWord(s[k])], i)

NoMatch == [end |-> 0, expr |-> <<>>, var |-> <<>>]

\* The pattern below from \s+WHERE\s+ on: group 1 is s[a]..s[b-1], group 2 starts at c
\* and ends before d.
UnwindWhere(s, a, b, c, d, e) ==
    IF d = c \/ e = 0 THEN NoMatch
    ELSE [end |-> e, expr |-> SubSeq(s, a, b - 1), var |-> SubSeq(s, c, d - 1)]

\* ... from (\w+) on: \s+AS\s+ ended before c (0: it did not match).
UnwindVar(s, a, b, c, d) ==
    IF c = 0 THEN NoMatch
    ELSE UnwindWhere(s, a, b, c, d, MatchEnd(s, d, <<WS, "w", "h", "e", "r", "e", WS>>, 1))

\* ... from \s+AS\s+ on: group 1 starts at a and ends before b.
UnwindAs(s, a, b, c) ==
    IF b = a THEN NoMatch ELSE UnwindVar(s, a, b, c, SkipWord(s, c))

\* ... from ([\w\.\[\]]+) on: UNWIND\s+ ended before a (0: it did not match).
UnwindExpr(s, a) ==
    IF a = 0 THEN NoMatch
    ELSE UnwindAs(s, a, SkipExpr(s, a), MatchEnd(s, SkipExpr(s, a), <<WS, "a", "s", WS>>, 1))

\* r"UNWIND\s+([\w\.\[\]]+)\s+AS\s+(\w+)\s+WHERE\s+" (re.IGNORECASE) matched at index i:
\* the index after the match (0: no match) and its two groups. A run of a character
\* class is followed by \s+, which no character of the class matches, so the greedy run
\* is the only one that can match.
UnwindWhereMatch(s, i) == UnwindExpr(s, MatchEnd(s, i, <<"u", "n", "w", "i", "n", "d", WS>>, 1))

\* re.search(r"\(c\s*:\s*Case\)", fixed, flags=re.IGNORECASE)
HasCaseC(s) ==
    \E i \in 1..Len(s) :
        MatchEnd(s, i, <<"(", "c", WS0, ":", WS0, "c", "a", "s", "e", ")">>, 1) # 0

\* _fix_unwind_where: f"UNWIND {expr} AS {var} WITH {with_prefix}{var} WHERE "
FixUnwindWhere(expr, var, with_prefix) ==
    Flatten(<< <<"U", "N", "W", "I", "N", "D", " ">>, expr, <<" ", "A", "S", " ">>, var,
               <<" ", "W", "I", "T", "H", " ">>, with_prefix, var,
               <<" ", "W", "H", "E", "R", "E", " ">> >>)

RECURSIVE SubUnwindWhere(_, _, _)

\* The text from index i up to the match m at index k, the replacement of m, and the
\* substitution of the rest.
SubMatch(s, i, k, m, with_prefix) ==
    SubSeq(s, i, k - 1) \o FixUnwindWhere(m.expr, m.var, with_prefix)
        \o SubUnwindWhere(s, m.end, with_prefix)

\* starts holds the indices from i on at which the pattern matches.
SubLeftmost(s, i, starts, with_prefix) ==
    IF starts = {} THEN SubSeq(s, i, Len(s))
    ELSE SubMatch(s, i, Least(starts), UnwindWhereMatch(s, Least(starts)), with_prefix)

\* re.sub of the UNWIND ... WHERE pattern, from index i on: the text up to the
\* leftmost match is kept, the match is replaced, and the search goes on after it.
SubUnwindWhere(s, i, with_prefix) ==
    SubLeftmost(s, i, { k \in i..Len(s) : UnwindWhereMatch(s, k).end # 0 }, with_prefix)

\* A last step that keeps a line break where a run of white space begins with one.
CollapseSpaces_breaks_kept(s) ==
    LET kept == SelectSeq([k \in 1..Len(s) |-> k],
                          LAMBDA k : ~IsSpace(s[k]) \/ k = 1 \/ ~IsSpace(s[k - 1]))
    IN  [n \in 1..Len(kept) |-> IF s[kept[n]] \in LineBreaks THEN s[kept[n]]
                                ELSE IF IsSpace(s[kept[n]]) THEN " " ELSE s[kept[n]]]

\* A last step that leaves the white space as it is.
CollapseSpaces_kept(s) == s

\* re.sub(r"\s+", " ", fixed): every run of whitespace becomes one space.
CollapseSpaces(s) ==
    LET kept == SelectSeq([k \in 1..Len(s) |-> k],
                          LAMBDA k : ~IsSpace(s[k]) \/ k = 1 \/ ~IsSpace(s[k - 1]))
    IN  [n \in 1..Len(kept) |-> IF IsSpace(s[kept[n]]) THEN " " ELSE s[kept[n]]]

\* m.group(1).strip().replace("'", "").replace(RightDQuote, "").replace(LeftDQuote, "")
CleanNameFix(g) == RemoveChars(Strip(g), {"'", RightDQuote, LeftDQuote})

\* auto_fix_cypher that always projects the UNWIND variable alone.
auto_fix_cypher_no_prefix(cql) ==
    LET fixed == SubUnwindWhere(Strip(cql), 1, <<>>)
        mz == LazyGroup(cql, ZhengXingWei, DeAnLiZhong)
        mf == LazyGroup(cql, YaoFangWei, DeAnLiZhong)
    IN  IF mz # <<>> /\ (Contains(cql, YaoFang) \/ Contains(cql, ChuFang))
        THEN CypherZhengxingPrescription(CleanNameFix(mz))
        ELSE IF mz # <<>> /\ Contains(cql, ZhongYao)
        THEN CypherZhengxingHerb(CleanNameFix(mz))
        ELSE IF mf # <<>>
        THEN CypherFormulaZhengxing(CleanNameFix(mf))
        ELSE CollapseSpaces(fixed)

auto_fix_cypher(cql) ==
    LET stripped == Strip(cql)
        with_prefix == IF HasCaseC(stripped) THEN <<"c", ",", " ">> ELSE <<>>
        fixed == SubUnwindWhere(stripped, 1, with_prefix)
        mz == LazyGroup(cql, ZhengXingWei, DeAnLiZhong)
        mf == LazyGroup(cql, YaoFangWei, DeAnLiZhong)
    IN  IF mz # <<>> /\ (Contains(cql, YaoFang) \/ Contains(cql, ChuFang))
        THEN CypherZhengxingPrescription(CleanNameFix(mz))
        ELSE IF mz # <<>> /\ Contains(cql, ZhongYao)
        THEN CypherZhengxingHerb(CleanNameFix(mz))
        ELSE IF mf # <<>>
        THEN CypherFormulaZhengxing(CleanNameFix(mf))
        ELSE CollapseSpaces(fixed)

(***************************************************************************)
(* src/app.py: the template overrides of ask.                              *)
(***************************************************************************)

\* A name that is stripped and keeps its quotes.
CleanName_keep_quotes(g) == Strip(g)

\* m.group(1).strip().replace("'", "")
CleanName(g) == RemoveChars(Strip(g), {"'"})

\* [^\s,FullComma FullStop 的]
IsHerbChar(c) == ~IsSpace(c) /\ c \notin {",", FullComma, FullStop, "de"}

\* re.search of 中药, \s* and a run of [^\s,FullComma FullStop 的]: group 1 of the
\* leftmost match (the run is greedy), <<>> when there is no match.
HerbGroup(s) ==
    LET herb == [k \in 1..Len(s) |-> IsHerbChar(s[k])]
        name(i) == SkipSpaces(s, i + Len(ZhongYao))
        starts == { i \in 1..Len(s) :
                      LitAt(s, i, ZhongYao) /\ SkipRun(herb, name(i)) > name(i) }
    IN  IF starts = {} THEN <<>>
        ELSE LET g == name(Least(starts))
             IN  SubSeq(s, g, SkipRun(herb, g) - 1)

\* 剂量 | 炮制 | 方法 | 和 | 及
Qualifiers == {JiLiang, PaoZhi, <<"fang1", "fa3">>, <<"he2">>, <<"ji2b">>}

\* re.sub(r"(的)?(剂量|炮制|方法|和|及).*", "", hname): hname holds no 的 and no line
\* break, so the name is cut at the first qualifier.
CutQualifier(h) ==
    LET at == { k \in 1..Len(h) : \E w \in Qualifiers : LitAt(h, k, w) }
    IN  IF at = {} THEN h
        ELSE SubSeq(h, 1, (CHOOSE k \in at : \A j \in at : k <= j) - 1)

\* A chain that goes on to the later templates when a template whose markers the
\* question carries finds no name in it.
TemplateOverride_fallthrough(query) ==
    LET has(w) == Contains(query, w)
        mz == LazyGroup(query, ZhengXingWei, DeAnLiZhong)
        mf == LazyGroup(query, YaoFangWei, DeAnLiZhong)
        md == LazyGroup(query, JiBingWei, DeAnLiZhong)
        mh == HerbGroup(query)
    IN  IF has(ZhengXingWei) /\ (has(YaoFang) \/ has(ChuFang)) /\ mz # <<>>
        THEN Some(CypherZhengxingPrescription(CleanName(mz)))
        ELSE IF has(ZhengXingWei) /\ has(ZhongYao) /\ ~has(JiLiang) /\ ~has(PaoZhi)
                /\ mz # <<>>
        THEN Some(CypherZhengxingHerb(CleanName(mz)))
        ELSE IF has(ZhengXingWei) /\ has(ZhongYao) /\ (has(JiLiang) \/ has(PaoZhi))
                /\ mz # <<>> /\ mh # <<>>
        THEN Some(CypherZhengxingHerbDose(CleanName(mz), CutQualifier(Strip(mh))))
        ELSE IF has(YaoFangWei) /\ has(ZhengXing) /\ mf # <<>>
        THEN Some(CypherFormulaZhengxing(CleanName(mf)))
        ELSE IF has(YaoFangWei) /\ (has(JiBing) \/ has(BingMing)) /\ mf # <<>>
        THEN Some(CypherFormulaDisease(CleanName(mf)))
        ELSE IF has(YaoFangWei) /\ (has(ZhongYao) \/ has(YaoWu)) /\ mf # <<>>
        THEN Some(CypherFormulaHerb(CleanName(mf)))
        ELSE IF has(JiBingWei) /\ has(ZhongYao) /\ md # <<>>
        THEN Some(CypherDiseaseHerb(CleanName(md)))
        ELSE IF has(JiBingWei) /\ has(ZhengXing) /\ md # <<>>
        THEN Some(CypherDiseaseZhengxing(CleanName(md)))
        ELSE None

\* The if/elif chain of ask: None when no branch assigns cypher.
TemplateOverride(query) ==
    LET has(w) == Contains(query, w)
        mz == LazyGroup(query, ZhengXingWei, DeAnLiZhong)
        mf == LazyGroup(query, YaoFangWei, DeAnLiZhong)
        md == LazyGroup(query, JiBingWei, DeAnLiZhong)
        mh == HerbGroup(query)
    IN  IF has(ZhengXingWei) /\ (has(YaoFang) \/ has(ChuFang))
        THEN IF mz # <<>> THEN Some(CypherZhengxingPrescription(CleanName(mz))) ELSE None
        ELSE IF has(ZhengXingWei) /\ has(ZhongYao) /\ ~has(JiLiang) /\ ~has(PaoZhi)
        THEN IF mz # <<>> THEN Some(CypherZhengxingHerb(CleanName(mz))) ELSE None
        ELSE IF has(ZhengXingWei) /\ has(ZhongYao) /\ (has(JiLiang) \/ has(PaoZhi))
        THEN IF mz # <<>> /\ mh # <<>>
             THEN Some(CypherZhengxingHerbDose(CleanName(mz), CutQualifier(Strip(mh))))
             ELSE None
        ELSE IF has(YaoFangWei) /\ has(ZhengXing)
        THEN IF mf # <<>> THEN Some(CypherFormulaZhengxing(CleanName(mf))) ELSE None
        ELSE IF has(YaoFangWei) /\ (has(JiBing) \/ has(BingMing))
        THEN IF mf # <<>> THEN Some(CypherFormulaDisease(CleanName(mf))) ELSE None
        ELSE IF has(YaoFangWei) /\ (has(ZhongYao) \/ has(YaoWu))
        THEN IF mf # <<>> THEN Some(CypherFormulaHerb(CleanName(mf))) ELSE None
        ELSE IF has(JiBingWei) /\ has(ZhongYao)
        THEN IF md # <<>> THEN Some(CypherDiseaseHerb(CleanName(md))) ELSE None
        ELSE IF has(JiBingWei) /\ has(ZhengXing)
        THEN IF md # <<>> THEN Some(CypherDiseaseZhengxing(CleanName(md))) ELSE None
        ELSE None

\* A final query taken from the generator even when a template matches.
FinalCypher_generator_first(query, raw_cypher) == auto_fix_cypher(raw_cypher)

\* The final query of ask: the template's query, or "if cypher is None:
\* cypher = auto_fix_cypher(raw_cypher)".
FinalCypher(query, raw_cypher) ==
    IF TemplateOverride(query) # None THEN TemplateOverride(query)[1]
    ELSE auto_fix_cypher(raw_cypher)

(***************************************************************************)
(* src/app.py: follow-up detection and the generator adapter.              *)
(***************************************************************************)

FOLLOWUP_HINTS ==
    { <<"ji1", "yu2", "yi3", "shang4">>,    \* 基于以上
      <<"zai4", "ci3", "ji1", "chu3b", "shang4">>,    \* 在此基础上
      <<"ji4b", "xu4">>,    \* 继续
      <<"jie1", "zhe">>,    \* 接着
      <<"gang1", "cai2">>,    \* 刚才
      <<"shang4", "yi1", "ge4">>,    \* 上一个
      <<"shang4", "shu4">>,    \* 上述
      <<"qian2", "mian4", "de">> }    \* 前面的

looks_like_followup(q) == \E k \in FOLLOWUP_HINTS : LitAt(Strip(q), 1, k)

Fence == <<Backtick, Backtick, Backtick>>

\* The tail of llm_to_cypher: the completion stripped, a leading fence (with an optional
\* "cypher", in any case) and a trailing fence removed, stripped after each step.
StripFences(content) ==
    LET t0 == Strip(content)
        a  == IF LitAt(t0, 1, Fence)
              THEN LET e == MatchEnd(t0, 4, <<"c", "y", "p", "h", "e", "r">>, 1)
                   IN  IF e # 0 THEN e ELSE 4
              ELSE 1
        t1 == Strip(SubSeq(t0, a, Len(t0)))
        t2 == IF LitAt(t1, Len(t1) - 2, Fence) THEN SubSeq(t1, 1, Len(t1) - 3) ELSE t1
    IN  Strip(t2)

(***************************************************************************)
(* src/app.py: format_answer.                                              *)
(***************************************************************************)

PinCi == <<"pin2", "ci4">>    \* 频次

\* A result row is a sequence of <<column, value>> pairs with distinct columns, in the
\* order of the RETURN clause; a value is <<kind, payload>>.
StrValue(s) == <<"str", s>>

IntValue(n) == <<"int", n>>

NullValue == <<"null", 0>>

ListValue(items) == <<"list", items>>

\* A value of a result row that json.dumps cannot serialize (a graph node).
NodeValue == <<"node", 0>>

HasColumn(row, col) == \E k \in 1..Len(row) : row[k][1] = col

\* r[col]
ValueOf(row, col) == row[CHOOSE k \in 1..Len(row) : row[k][1] = col][2]

\* sep.join(parts)
Join(parts, sep) ==
    IF parts = <<>> THEN <<>>
    ELSE parts[1] \o Flatten([i \in 1..(Len(parts) - 1) |-> sep \o parts[i + 1]])

RECURSIVE Digits(_)
\* str(n) of an int n >= 0
Digits(n) ==
    IF n < 10 THEN <<<<"0", "1", "2", "3", "4", "5", "6", "7", "8", "9">>[n + 1]>>
    ELSE Digits(n \div 10) \o Digits(n % 10)

\* repr(s) of a str: double quotes when s holds a single quote and no double quote,
\* single quotes otherwise; the quote, the backslash and the control characters are
\* escaped.
ReprStr(s) ==
    LET q == IF (\E k \in 1..Len(s) : s[k] = "'") /\ ~(\E k \in 1..Len(s) : s[k] = "\"")
             THEN "\"" ELSE "'"
        esc(c) == IF c = "\\" THEN <<"\\", "\\">>
                  ELSE IF c = q THEN <<"\\", q>>
                  ELSE IF c = "\n" THEN <<"\\", "n">>
                  ELSE IF c = "\t" THEN <<"\\", "t">>
                  ELSE <<c>>
    IN  <<q>> \o Flatten([k \in 1..Len(s) |-> esc(s[k])]) \o <<q>>

\* The text of a node in str() and repr(); what it holds is not modelled.
NodeText == <<"<", "N", "o", "d", "e", ">">>

RECURSIVE PyRepr(_)
\* repr(v): the items of a list are formatted with repr.
PyRepr(v) ==
    IF v[1] = "str" THEN ReprStr(v[2])
    ELSE IF v[1] = "int" THEN Digits(v[2])
    ELSE IF v[1] = "null" THEN <<"N", "o", "n", "e">>
    ELSE IF v[1] = "list"
    THEN <<"[">> \o Join([i \in 1..Len(v[2]) |-> PyRepr(v[2][i])], <<",", " ">>) \o <<"]">>
    ELSE NodeText

\* str(v), what an f-string puts in for {v}.
PyStr(v) == IF v[1] = "str" THEN v[2] ELSE PyRepr(v)

\* json.dumps(s, ensure_ascii=False) of a str
JsonStr(s) ==
    LET esc(c) == IF c = "\\" THEN <<"\\", "\\">>
                  ELSE IF c = "\"" THEN <<"\\", "\"">>
                  ELSE IF c = "\n" THEN <<"\\", "n">>
                  ELSE IF c = "\t" THEN <<"\\", "t">>
                  ELSE <<c>>
    IN  <<"\"">> \o Flatten([k \in 1..Len(s) |-> esc(s[k])]) \o <<"\"">>

RECURSIVE JsonSerializable(_)
\* json.dumps(v) does not raise TypeError.
JsonSerializable(v) ==
    IF v[1] = "list" THEN \A i \in 1..Len(v[2]) : JsonSerializable(v[2][i])
    ELSE v[1] # "node"

RECURSIVE JsonValue(_)
\* json.dumps(v, ensure_ascii=False) of a serializable value
JsonValue(v) ==
    IF v[1] = "str" THEN JsonStr(v[2])
    ELSE IF v[1] = "int" THEN Digits(v[2])
    ELSE IF v[1] = "list"
    THEN <<"[">> \o Join([i \in 1..Len(v[2]) |-> JsonValue(v[2][i])], <<",", " ">>) \o <<"]">>
    ELSE <<"n", "u", "l", "l">>

\* json.dumps(r, ensure_ascii=False) of a row
JsonRow(row) ==
    <<"{">> \o Join([k \in 1..Len(row) |->
                       JsonStr(row[k][1]) \o <<":", " ">> \o JsonValue(row[k][2])],
                   <<",", " ">>) \o <<"}">>

\* format_answer raises: in the table layout r['频次'] meets a row without that column
\* (the values are formatted with str(), which serializes nothing); in the list layout
\* json.dumps(r) meets a value it cannot serialize.
format_answer_raises(results) ==
    /\ results # <<>>
    /\ IF HasColumn(results[1], PinCi)
       THEN \E i \in 1..Len(results) : ~HasColumn(results[i], PinCi)
       ELSE \E i \in 1..Len(results) :
                \E k \in 1..Len(results[i]) : ~JsonSerializable(results[i][k][2])

\* A layout chosen by the question instead of the rows.
format_answer_shape_by_query(query, results) ==
    IF Contains(query, PinCi) THEN "table" ELSE "list"

\* The second component of format_answer's result.
format_answer_shape(query, results) ==
    IF results # <<>> /\ HasColumn(results[1], PinCi) THEN "table" ELSE "list"

\* 没有找到符合条件的结果（问题：{query}）。
NoResultsText(query) ==
    <<"mei2", "you3", "zhao3", "dao4", "fu2", "he2b", "tiao2", "jian4", "de", "jie2", "guo3", "U+FF08", "wen4", "ti2", "U+FF1A">>
        \o query \o <<"U+FF09", "U+3002">>

\* "| 项目 | 频次 |\n|------|------|"
TableHeader ==
    <<"|", " ", "xiang4b", "mu4", " ", "|", " ", "pin2", "ci4", " ", "|", "\n", "|", "-", "-", "-", "-", "-", "-", "|", "-", "-", "-", "-", "-", "-", "|">>

\* f"| {list(r.values())[0]} | {r['频次']} |"
TableRow(r) ==
    <<"|", " ">> \o PyStr(r[1][2]) \o <<" ", "|", " ">> \o PyStr(ValueOf(r, PinCi))
        \o <<" ", "|">>

\* 针对你的问题「{query}」，统计结果如下：\n\n{header}\n
TableIntro(query) ==
    <<"zhen1", "dui4", "ni3", "de", "wen4", "ti2", "U+300C">> \o query
        \o <<"U+300D", "U+FF0C", "tong3", "ji4c", "jie2", "guo3", "ru2", "xia4", "U+FF1A", "\n", "\n">>
        \o TableHeader \o <<"\n">>

\* f"- {json.dumps(r, ensure_ascii=False)}"
ListLine(r) == <<"-", " ">> \o JsonRow(r)

\* 查询结果共 {len(results)} 条，详情如下：\n
ListIntro(results) ==
    <<"cha2", "xun2", "jie2", "guo3", "gong4", " ">> \o Digits(Len(results))
        \o <<" ", "tiao2", "U+FF0C", "xiang2", "qing2", "ru2", "xia4", "U+FF1A", "\n">>

\* The first component of format_answer's result when it returns.
format_answer_text(query, results) ==
    IF results = <<>> THEN NoResultsText(query)
    ELSE IF HasColumn(results[1], PinCi)
    THEN TableIntro(query)
             \o Join([i \in 1..Len(results) |-> TableRow(results[i])], <<"\n">>)
    ELSE ListIntro(results)
             \o Join([i \in 1..Len(results) |-> ListLine(results[i])], <<"\n">>)

\* format_answer(query, results): the pair it returns, or that it raises.
format_answer(query, results) ==
    IF format_answer_raises(results)
    THEN [raised |-> TRUE, text |-> <<>>, shape |-> ""]
    ELSE [raised |-> FALSE, text |-> format_answer_text(query, results),
          shape |-> format_answer_shape(query, results)]

(***************************************************************************)
(* The ask and reset endpoints.                                            *)
(***************************************************************************)

\* The number of ask requests.
MaxRequests == 2

Requests == 1..MaxRequests

Sessions == {"default", "s2"}

\* The questions the callers ask.
Questions ==
    { <<"zai4", "zheng4", "xing2", "wei2", "fei4", "re4", "de", "an4", "li4", "zhong1",
        "you3", "na3", "xie1", "yao4", "fang1">>,    \* 在证型为肺热的案例中有哪些药方
      <<" ", "ji4b", "xu4", "kan4", "zheng4", "xing2", "wei2", "'", "fei4", "re4", "'", "de",
        "an4", "li4", "zhong1", "de", "chu3", "fang1">>,    \* 继续看证型为'肺热'的案例中的处方
      <<"xi4", "tong3", "zhong1", "dou1", "you3", "na3", "xie1", "she2", "xiang4">> }    \* 系统中都有哪些舌象

\* The completions the generator returns.
Completions ==
    { <<"M", "A", "T", "C", "H", " ", "(", "c", ":", "C", "a", "s", "e", ")", " ", "R", "E",
        "T", "U", "R", "N", " ", "c">>,
      <<"M", "A", "T", "C", "H", " ", "(", "c", ":", "C", "a", "s", "e", ")", " ", "D", "E",
        "T", "A", "C", "H", " ", "D", "E", "L", "E", "T", "E", " ", "c">>,
      <<Backtick, Backtick, Backtick, "c", "y", "p", "h", "e", "r", "\n", "M", "A", "T", "C",
        "H", " ", "(", "c", ":", "C", "a", "s", "e", ")", "\n", "U", "N", "W", "I", "N", "D",
        " ", "c", ".", "t", "o", "n", "g", "u", "e", " ", "A", "S", " ", "t", " ", "W", "H",
        "E", "R", "E", " ", "t", " ", "=", " ", "1", "\n", "R", "E", "T", "U", "R", "N", " ",
        "t", "\n", Backtick, Backtick, Backtick>>,
      <<Backtick, Backtick, Backtick, "c", "y", "p", "h", "e", "r", "\n", Backtick, Backtick,
        Backtick>> }

\* The result sets the graph store returns.
ResultSets ==
    { <<>>,
      << << <<<<"zheng4b", "zhuang4">>, StrValue(<<"ke2", "sou4">>)>>,
            <<PinCi, IntValue(5)>> >> >>,
      << << <<<<"c">>, NodeValue>> >> >> }

\* The generator's texts as ask receives them.
RawCyphers == { StripFences(content) : content \in Completions }

\* The pure steps of ask over the values above, computed once.
followup_of == [q \in Questions |-> looks_like_followup(q)]
template_of == [q \in Questions |-> TemplateOverride(q)]
final_of == [q \in Questions |-> [raw \in RawCyphers |-> FinalCypher(q, raw)]]

IdleRequest ==
    [ query |-> <<>>, session_id |-> "default", dryrun |-> FALSE,
      prev_ctx |-> None, raw_cypher |-> None, cypher |-> None,
      validated |-> None, executed |-> None, results |-> None,
      gen_calls |-> 0, gen_failed |-> FALSE, verdict |-> "none",
      status |-> 0, detail |-> None, answer_format |-> "" ]

\* The state of the pure-function checks while another specification runs.
ValidateIdle == vq = <<>> /\ vsafe = "none" /\ vsafeTest = "none"

FixIdle == fq = <<>> /\ fout = <<>>

BuildIdle == bq = <<>> /\ braw = <<>> /\ bout = <<>>

FormatIdle == aq = <<>> /\ arows = <<>> /\ aout = <<>>

\* The state of the endpoints while a pure-function check runs.
AskIdle ==
    /\ variant = "app"
    /\ llm_ready = TRUE
    /\ LAST_CONTEXT = [s \in Sessions |-> None]
    /\ pc = [r \in Requests |-> "idle"]
    /\ req = [r \in Requests |-> IdleRequest]

Init ==
    /\ variant \in {"app", "app_test"}
    /\ llm_ready \in BOOLEAN
    /\ LAST_CONTEXT = [s \in Sessions |-> None]
    /\ pc = [r \in Requests |-> "idle"]
    /\ req = [r \in Requests |-> IdleRequest]
    /\ ValidateIdle
    /\ FixIdle
    /\ BuildIdle
    /\ FormatIdle

\* The request ends: the response, or the HTTPException, goes to the caller.
Respond(r, fields) ==
    /\ pc' = [pc EXCEPT ![r] = "done"]
    /\ req' = [req EXCEPT ![r] = fields]

\* ask is called: prev_ctx is read from LAST_CONTEXT (src/app.py only for a follow-up,
\* src/app_test.py always).
AskStart(r, q, sid, dry) ==
    /\ pc[r] = "idle"
    /\ pc' = [pc EXCEPT ![r] = "llm"]
    /\ req' = [req EXCEPT ![r] =
                 [@ EXCEPT !.query = q, !.session_id = sid, !.dryrun = dry,
                           !.prev_ctx = IF variant = "app_test" \/ followup_of[q]
                                        THEN LAST_CONTEXT[sid] ELSE None]]
    /\ UNCHANGED <<variant, llm_ready, LAST_CONTEXT>>

\* llm_to_cypher raises RuntimeError before any call: the client is not configured.
LlmNotConfigured(r) ==
    /\ pc[r] = "llm"
    /\ ~llm_ready
    /\ Respond(r, [req[r] EXCEPT !.gen_failed = TRUE, !.status = 500])
    /\ UNCHANGED <<variant, llm_ready, LAST_CONTEXT>>

\* A failed generator call that is repeated once before the request gives up.
LlmFail_retry(r) ==
    /\ pc[r] = "llm"
    /\ llm_ready
    /\ IF req[r].gen_calls = 0
       THEN /\ req' = [req EXCEPT ![r] = [@ EXCEPT !.gen_calls = @ + 1]]
            /\ pc' = pc
       ELSE Respond(r, [req[r] EXCEPT !.gen_calls = @ + 1, !.gen_failed = TRUE,
                                      !.status = 500])
    /\ UNCHANGED <<variant, llm_ready, LAST_CONTEXT>>

\* client.chat.completions.create raises: the handler's except turns it into a 500.
LlmFail(r) ==
    /\ pc[r] = "llm"
    /\ llm_ready
    /\ Respond(r, [req[r] EXCEPT !.gen_calls = @ + 1, !.gen_failed = TRUE, !.status = 500])
    /\ UNCHANGED <<variant, llm_ready, LAST_CONTEXT>>

\* llm_to_cypher returns the completion without its code fences.
LlmReturn(r, content) ==
    /\ pc[r] = "llm"
    /\ llm_ready
    /\ pc' = [pc EXCEPT ![r] = "build"]
    /\ req' = [req EXCEPT ![r] =
                 [@ EXCEPT !.gen_calls = @ + 1, !.raw_cypher = Some(StripFences(content))]]
    /\ UNCHANGED <<variant, llm_ready, LAST_CONTEXT>>

\* The final candidate: src/app.py's templates and auto_fix_cypher; src/app_test.py
\* takes the generator's text as it is.
BuildCypher(r) ==
    /\ pc[r] = "build"
    /\ pc' = [pc EXCEPT ![r] = "check"]
    /\ req' = [req EXCEPT ![r] =
                 [@ EXCEPT !.cypher =
                     IF variant = "app"
                     THEN Some(final_of[req[r].query][req[r].raw_cypher[1]])
                     ELSE req[r].raw_cypher]]
    /\ UNCHANGED <<variant, llm_ready, LAST_CONTEXT>>

\* What the caller gets when is_safe_cypher rejects the candidate: src/app.py re-raises
\* the HTTPException(400); src/app_test.py's "except Exception" catches it and raises a
\* 500 whose detail is str() of the caught exception, which holds the query text or not
\* with the version of the framework.
Rejected(r, keeps_text) ==
    IF variant = "app"
    THEN [req[r] EXCEPT !.verdict = "unsafe", !.status = 400, !.detail = req[r].cypher]
    ELSE [req[r] EXCEPT !.verdict = "unsafe", !.status = 500,
                        !.detail = IF keeps_text THEN req[r].cypher ELSE Some(<<>>)]

\* A dry run that returns the candidate before it is validated.
SafetyCheck_dryrun_first(r) ==
    /\ pc[r] = "check"
    /\ LET safe == IF variant = "app" THEN is_safe_cypher(req[r].cypher[1])
                   ELSE is_safe_cypher_test(req[r].cypher[1])
       IN  IF req[r].dryrun
           THEN Respond(r, [req[r] EXCEPT !.verdict = "safe", !.validated = req[r].cypher,
                                          !.status = 200])
           ELSE IF ~safe
           THEN \E keeps_text \in BOOLEAN :
                    /\ (variant = "app" => keeps_text)
                    /\ Respond(r, Rejected(r, keeps_text))
           ELSE /\ pc' = [pc EXCEPT ![r] = "run"]
                /\ req' = [req EXCEPT ![r] =
                             [@ EXCEPT !.verdict = "safe", !.validated = req[r].cypher]]
    /\ UNCHANGED <<variant, llm_ready, LAST_CONTEXT>>

\* A safety check that lets every candidate through.
SafetyCheck_skipped(r) ==
    /\ pc[r] = "check"
    /\ IF req[r].dryrun
       THEN Respond(r, [req[r] EXCEPT !.verdict = "safe", !.status = 200])
       ELSE /\ pc' = [pc EXCEPT ![r] = "run"]
            /\ req' = [req EXCEPT ![r] = [@ EXCEPT !.verdict = "safe"]]
    /\ UNCHANGED <<variant, llm_ready, LAST_CONTEXT>>

\* "if not is_safe_cypher(cypher): raise HTTPException(400)", then the dry-run return.
SafetyCheck(r) ==
    /\ pc[r] = "check"
    /\ LET safe == IF variant = "app" THEN is_safe_cypher(req[r].cypher[1])
                   ELSE is_safe_cypher_test(req[r].cypher[1])
       IN  IF ~safe
           THEN \E keeps_text \in BOOLEAN :
                    /\ (variant = "app" => keeps_text)
                    /\ Respond(r, Rejected(r, keeps_text))
           ELSE IF req[r].dryrun
           THEN Respond(r, [req[r] EXCEPT !.verdict = "safe", !.validated = req[r].cypher,
                                          !.status = 200])
           ELSE /\ pc' = [pc EXCEPT ![r] = "run"]
                /\ req' = [req EXCEPT ![r] =
                             [@ EXCEPT !.verdict = "safe", !.validated = req[r].cypher]]
    /\ UNCHANGED <<variant, llm_ready, LAST_CONTEXT>>

\* run_cypher returns rows. src/app.py stores the context next, src/app_test.py formats
\* the answer first.
RunCypher(r, rows) ==
    /\ pc[r] = "run"
    /\ pc' = [pc EXCEPT ![r] = IF variant = "app" THEN "store" ELSE "format"]
    /\ req' = [req EXCEPT ![r] =
                 [@ EXCEPT !.executed = req[r].cypher, !.results = Some(rows)]]
    /\ UNCHANGED <<variant, llm_ready, LAST_CONTEXT>>

\* A failed execution that leaves a context with no rows behind.
RunFail_stores(r) ==
    /\ pc[r] = "run"
    /\ Respond(r, [req[r] EXCEPT !.executed = req[r].cypher, !.status = 500])
    /\ LAST_CONTEXT' = [LAST_CONTEXT EXCEPT ![req[r].session_id] =
                           Some([query |-> req[r].query, cypher |-> req[r].cypher[1],
                                 results |-> <<>>])]
    /\ UNCHANGED <<variant, llm_ready>>

\* run_cypher raises (the store is down, the query does not compile).
RunFail(r) ==
    /\ pc[r] = "run"
    /\ Respond(r, [req[r] EXCEPT !.executed = req[r].cypher, !.status = 500])
    /\ UNCHANGED <<variant, llm_ready, LAST_CONTEXT>>

\* A context that is stored only for a follow-up question.
StoreContext_followup_only(r) ==
    /\ pc[r] = "store"
    /\ LAST_CONTEXT' =
          IF followup_of[req[r].query]
          THEN [LAST_CONTEXT EXCEPT ![req[r].session_id] =
                   Some([query |-> req[r].query, cypher |-> req[r].cypher[1],
                         results |-> req[r].results[1]])]
          ELSE LAST_CONTEXT
    /\ IF variant = "app"
       THEN pc' = [pc EXCEPT ![r] = "format"] /\ req' = req
       ELSE Respond(r, [req[r] EXCEPT !.status = 200])
    /\ UNCHANGED <<variant, llm_ready>>

\* A context that keeps the rows of the context it replaces.
StoreContext_merged(r) ==
    /\ pc[r] = "store"
    /\ LAST_CONTEXT' =
          [LAST_CONTEXT EXCEPT ![req[r].session_id] =
              Some([query |-> req[r].query, cypher |-> req[r].cypher[1],
                    results |-> IF LAST_CONTEXT[req[r].session_id] # None
                                THEN LAST_CONTEXT[req[r].session_id][1].results
                                ELSE req[r].results[1]])]
    /\ IF variant = "app"
       THEN pc' = [pc EXCEPT ![r] = "format"] /\ req' = req
       ELSE Respond(r, [req[r] EXCEPT !.status = 200])
    /\ UNCHANGED <<variant, llm_ready>>

\* LAST_CONTEXT[session_id] = {"query": query, "cypher": cypher, "results": results}
StoreContext(r) ==
    /\ pc[r] = "store"
    /\ LAST_CONTEXT' = [LAST_CONTEXT EXCEPT ![req[r].session_id] =
                           Some([query |-> req[r].query, cypher |-> req[r].cypher[1],
                                 results |-> req[r].results[1]])]
    /\ IF variant = "app"
       THEN pc' = [pc EXCEPT ![r] = "format"] /\ req' = req
       ELSE Respond(r, [req[r] EXCEPT !.status = 200])
    /\ UNCHANGED <<variant, llm_ready>>

\* format_answer: src/app.py's returns the answer and the response follows, or raises
\* and the handler's except turns it into a 500; src/app_test.py's cannot raise, and the
\* context is stored next.
FormatAnswer(r) ==
    /\ pc[r] = "format"
    /\ IF variant = "app"
       THEN IF format_answer_raises(req[r].results[1])
            THEN Respond(r, [req[r] EXCEPT !.status = 500])
            ELSE Respond(r, [req[r] EXCEPT !.status = 200,
                               !.answer_format =
                                   format_answer_shape(req[r].query, req[r].results[1])])
       ELSE pc' = [pc EXCEPT ![r] = "store"] /\ req' = req
    /\ UNCHANGED <<variant, llm_ready, LAST_CONTEXT>>

\* A reset that clears every session.
reset_session_all(sid) ==
    /\ variant = "app"
    /\ LAST_CONTEXT' = [s \in Sessions |-> None]
    /\ UNCHANGED <<variant, llm_ready, pc, req>>

\* src/app.py's POST /reset: LAST_CONTEXT.pop(session_id, None).
reset_session(sid) ==
    /\ variant = "app"
    /\ LAST_CONTEXT' = [LAST_CONTEXT EXCEPT ![sid] = None]
    /\ UNCHANGED <<variant, llm_ready, pc, req>>

Next ==
    \/ /\ \/ \E r \in Requests, q \in Questions, sid \in Sessions, dry \in BOOLEAN :
                AskStart(r, q, sid, dry)
          \/ \E r \in Requests : LlmNotConfigured(r)
          \/ \E r \in Requests : LlmFail(r)
          \/ \E r \in Requests, content \in Completions : LlmReturn(r, content)
          \/ \E r \in Requests : BuildCypher(r)
          \/ \E r \in Requests : SafetyCheck(r)
          \/ \E r \in Requests, rows \in ResultSets : RunCypher(r, rows)
          \/ \E r \in Requests : RunFail(r)
          \/ \E r \in Requests : StoreContext(r)
          \/ \E r \in Requests : FormatAnswer(r)
          \/ \E sid \in Sessions : reset_session(sid)
       /\ UNCHANGED <<validateVars, fixVars, buildVars, formatVars>>

Spec == Init /\ [][Next]_vars

(***************************************************************************)
(* The validators applied to bounded query strings.                        *)
(***************************************************************************)

\* The longest query, in fragments, handed to the validator.
MaxAtoms == 3

\* The fragments the validator's inputs are built from.
QueryAtoms ==
    { <<"M", "A", "T", "C", "H", " ", "(", "c", ":", "C", "a", "s", "e", ")">>,
      <<" ">>,
      <<"\n">>,
      <<"D", "E", "T", "A", "C", "H", " ", "D", "E", "L", "E", "T", "E", " ", "c">>,
      <<"d", "e", "l", "e", "t", "e">>,
      <<"R", "E", "T", "U", "R", "N", " ", "c">>,
      <<"S", "e", "t">>,
      <<"x">>,
      <<"C", "A", "L", "L", " ", "a", "p", "o", "c", ".">>,
      <<"C", "A", "L", "L", " ", "d", "b", ".">>,
      <<"h", "e", "l", "p", "(", ")">>,
      <<"L", "O", "A", "D">>,
      <<"C", "S", "V">>,
      <<"e", "x", "p", "l", "a", "i", "n">> }

ValidatorInputs ==
    { Flatten(a) : a \in UNION { [1..n -> QueryAtoms] : n \in 0..MaxAtoms } }

Verdict(b) == IF b THEN "safe" ELSE "unsafe"

InitValidate ==
    /\ vq \in ValidatorInputs
    /\ vsafe = "none"
    /\ vsafeTest = "none"
    /\ FixIdle
    /\ AskIdle
    /\ BuildIdle
    /\ FormatIdle

\* src/app.py's is_safe_cypher(vq)
Validate ==
    /\ vsafe = "none"
    /\ vsafe' = Verdict(is_safe_cypher(vq))
    /\ UNCHANGED <<vq, vsafeTest, fixVars, askVars, buildVars, formatVars>>

\* src/app_test.py's is_safe_cypher(vq)
ValidateTest ==
    /\ vsafeTest = "none"
    /\ vsafeTest' = Verdict(is_safe_cypher_test(vq))
    /\ UNCHANGED <<vq, vsafe, fixVars, askVars, buildVars, formatVars>>

NextValidate == Validate \/ ValidateTest

SpecValidate == InitValidate /\ [][NextValidate]_vars


(***************************************************************************)
(* auto_fix_cypher applied to bounded candidates.                          *)
(***************************************************************************)

\* The fragments the repair engine's candidates are built from.
FixAtoms ==
    { <<"M", "A", "T", "C", "H", " ", "(", "c", ":", "C", "a", "s", "e", ")", " ">>,
      <<"M", "A", "T", "C", "H", " ", "(", "n", ":", "C", "a", "s", "e", ")", "\n">>,
      <<"U", "N", "W", "I", "N", "D", " ", "c", ".", "t", "o", "n", "g", "u", "e", " ", "A", "S", " ", "t">>,
      <<"u", "n", "w", "i", "n", "d", " ", " ", "n", ".", "x", "\t", "a", "s", " ", "x">>,
      <<"U", "N", "W", "I", "N", "D", " ", "[", "1", ",", "2", "]", " ", "A", "S", " ", "x">>,
      <<" ", "W", "H", "E", "R", "E", " ", "t", " ", "=", " ", "1", " ">>,
      <<"\n", "w", "h", "e", "r", "e", " ", " ", "x", " ", "=", " ", "1">>,
      <<" ", "R", "E", "T", "U", "R", "N", " ", "t">>,
      <<" ", "yao4", "fang1", "wei2", "x", "de", "an4", "li4", "zhong1">>,
      <<"zheng4", "xing2", "wei2", "'", "fei4", "re4", "'", "de", "an4", "li4", "zhong1", "yao4">> }

FixInputs ==
    { Flatten(a) : a \in UNION { [1..n -> FixAtoms] : n \in 0..MaxAtoms } }

InitFix ==
    /\ fq \in FixInputs
    /\ fout = <<>>
    /\ ValidateIdle
    /\ AskIdle
    /\ BuildIdle
    /\ FormatIdle

\* auto_fix_cypher(fq)
Fix ==
    /\ fout = <<>>
    /\ fout' = <<auto_fix_cypher(fq)>>
    /\ UNCHANGED <<fq, validateVars, askVars, buildVars, formatVars>>

NextFix == Fix

SpecFix == InitFix /\ [][NextFix]_vars

(***************************************************************************)
(* The final query of ask built for bounded questions.                     *)
(***************************************************************************)

\* The fragments the questions are put together from.
QuestionAtoms ==
    { <<"zai4", "zheng4", "xing2", "wei2", "fei4", "re4", "de", "an4", "li4", "zhong1">>,
      <<"zheng4", "xing2", "wei2", " ", "'", "tan2", "shi1", "'", "de", "an4", "li4",
        "zhong1">>,
      <<"you3", "na3", "xie1", "yao4", "fang1">>,
      <<"de", "chu3", "fang1">>,
      <<"you3", "na3", "xie1", "zhong1", "yao4">>,
      <<"zheng4", "xing2", "wei2">>,
      <<"\n">>,
      <<"de", "an4", "li4", "zhong1">>,
      <<"yao4", "fang1", "wei2", "ma2", "huang2", "tang1", "de", "an4", "li4", "zhong1">>,
      <<"ji4b", "xu4">>,
      <<"ji2", "bing4", "wei2", "xiao4", "chuan3", "de", "an4", "li4", "zhong1">>,    \* 疾病为哮喘的案例中
      <<"you3", "na3", "xie1", "zheng4", "xing2">>,    \* 有哪些证型
      <<"ma2", "huang2", "de", "ji4", "liang4">>,    \* 麻黄的剂量
      <<"he2", "bing4", "ming2">> }    \* 和病名

\* Every question of at most MaxAtoms fragments.
BuildQuestions ==
    { Flatten(t) : t \in UNION { [1..n -> QuestionAtoms] : n \in 0..MaxAtoms } }

\* Generator texts that hold a phrase of a question:
\* "MATCH (z:ZhengXing) RETURN z.name // 证型为肺热的案例中的药方" and
\* "// 药方为麻黄汤的案例中\nMATCH (c:Case) RETURN c"
PhrasedRaws ==
    { <<"M", "A", "T", "C", "H", " ", "(", "z", ":", "Z", "h", "e", "n", "g", "X", "i", "n",
        "g", ")", " ", "R", "E", "T", "U", "R", "N", " ", "z", ".", "n", "a", "m", "e", " ",
        "/", "/", " ", "zheng4", "xing2", "wei2", "fei4", "re4", "de", "an4", "li4",
        "zhong1", "de", "yao4", "fang1">>,
      <<"/", "/", " ", "yao4", "fang1", "wei2", "ma2", "huang2", "tang1", "de", "an4", "li4",
        "zhong1", "\n", "M", "A", "T", "C", "H", " ", "(", "c", ":", "C", "a", "s", "e", ")",
        " ", "R", "E", "T", "U", "R", "N", " ", "c">> }

\* Generator texts of several lines with a line that continues the clause before it:
\* "MATCH (c:Case) WHERE c.a = 1\nAND c.b = 2\nRETURN c" and
\* "MATCH (c:Case)\nc.a = 1 SET c.b = 2\nRETURN c"
ContinuedRaws ==
    { <<"M", "A", "T", "C", "H", " ", "(", "c", ":", "C", "a", "s", "e", ")", " ", "W", "H",
        "E", "R", "E", " ", "c", ".", "a", " ", "=", " ", "1", "\n", "A", "N", "D", " ", "c",
        ".", "b", " ", "=", " ", "2", "\n", "R", "E", "T", "U", "R", "N", " ", "c">>,
      <<"M", "A", "T", "C", "H", " ", "(", "c", ":", "C", "a", "s", "e", ")", "\n", "c", ".",
        "a", " ", "=", " ", "1", " ", "S", "E", "T", " ", "c", ".", "b", " ", "=", " ", "2",
        "\n", "R", "E", "T", "U", "R", "N", " ", "c">> }

\* The generator's texts the final query is built from.
BuildRaws == RawCyphers \cup PhrasedRaws \cup ContinuedRaws

InitBuild ==
    /\ bq \in BuildQuestions
    /\ braw \in BuildRaws
    /\ bout = <<>>
    /\ ValidateIdle
    /\ FixIdle
    /\ AskIdle
    /\ FormatIdle

\* Lines 328-423 of ask: the template chain, then "if cypher is None".
Build ==
    /\ bout = <<>>
    /\ bout' = <<FinalCypher(bq, braw)>>
    /\ UNCHANGED <<bq, braw, validateVars, fixVars, askVars, formatVars>>

NextBuild == Build

SpecBuild == InitBuild /\ [][NextBuild]_vars

(***************************************************************************)
(* format_answer applied to bounded result sets.                           *)
(***************************************************************************)

\* The most rows in a result set.
MaxRows == 3

\* The questions format_answer is called with: 系统中都有哪些舌象 and 舌象的频次
FormatQueries ==
    { <<"xi4", "tong3", "zhong1", "dou1", "you3", "na3", "xie1", "she2", "xiang4">>,
      <<"she2", "xiang4", "de", "pin2", "ci4">> }

ZhengZhuang == <<"zheng4b", "zhuang4">>    \* 症状

AnLiHao == <<"an4", "li4", "hao4">>    \* 案例号

SheXiang == <<"she2", "xiang4">>    \* 舌象

\* The rows of one result set have the columns of one RETURN clause; the values are
\* what the graph store holds (strings that may hold a line break or a quote, numbers,
\* nulls, arrays) or, for "RETURN c", nodes.
RowFamilies ==
    { { << <<ZhengZhuang, StrValue(<<"ke2", "sou4">>)>>, <<PinCi, IntValue(5)>> >>,
        << <<ZhengZhuang, StrValue(<<"qi4", "chuan3">>)>>, <<PinCi, IntValue(3)>> >>,
        << <<ZhengZhuang, StrValue(<<"ke2", "\n", "sou4">>)>>, <<PinCi, IntValue(12)>> >>,
        << <<ZhengZhuang, NullValue>>, <<PinCi, IntValue(0)>> >> },
      { << <<PinCi, IntValue(7)>>, <<ZhengZhuang, StrValue(<<"a", "|", "b">>)>> >> },
      { << <<AnLiHao, IntValue(1)>>,
           <<SheXiang, ListValue(<<StrValue(<<"she2", "'", "s">>), NullValue>>)>> >>,
        << <<AnLiHao, StrValue(<<"x", "\"", "y", "\n">>)>>, <<SheXiang, NullValue>> >> },
      { << <<<<"c">>, NodeValue>> >> } }

FormatResultSets ==
    UNION { [1..n -> family] : n \in 0..MaxRows, family \in RowFamilies }

InitFormat ==
    /\ aq \in FormatQueries
    /\ arows \in FormatResultSets
    /\ aout = <<>>
    /\ ValidateIdle
    /\ FixIdle
    /\ AskIdle
    /\ BuildIdle

\* format_answer(aq, arows)
Format ==
    /\ aout = <<>>
    /\ aout' = <<format_answer(aq, arows)>>
    /\ UNCHANGED <<aq, arows, validateVars, fixVars, askVars, buildVars>>

NextFormat == Format

SpecFormat == InitFormat /\ [][NextFormat]_vars

(***************************************************************************)
(* Claims about the safety validator (checked under SpecValidate).         *)
(***************************************************************************)

\* The deny-listed keywords, as patterns.
DenyKeywords ==
    { <<"c", "r", "e", "a", "t", "e">>,
      <<"m", "e", "r", "g", "e">>,
      <<"s", "e", "t">>,
      <<"d", "e", "l", "e", "t", "e">>,
      <<"d", "e", "t", "a", "c", "h", WS, "d", "e", "l", "e", "t", "e">>,
      <<"r", "e", "m", "o", "v", "e">>,
      <<"d", "r", "o", "p">>,
      <<"l", "o", "a", "d", WS, "c", "s", "v">>,
      <<"a", "p", "o", "c", ".">>,
      <<"c", "a", "l", "l", WS, "d", "b", "m", "s">>,
      <<"c", "a", "l", "l", WS, "d", "b", ".">> }

\* The read-only clause keywords, as patterns.
ReadOnlyKeywords ==
    { <<"c", "a", "l", "l">>,
      <<"m", "a", "t", "c", "h">>,
      <<"o", "p", "t", "i", "o", "n", "a", "l", WS, "m", "a", "t", "c", "h">>,
      <<"w", "i", "t", "h">>,
      <<"u", "n", "w", "i", "n", "d">>,
      <<"r", "e", "t", "u", "r", "n">>,
      <<"w", "h", "e", "r", "e">>,
      <<"o", "r", "d", "e", "r", WS, "b", "y">>,
      <<"l", "i", "m", "i", "t">>,
      <<"s", "k", "i", "p">>,
      <<"p", "r", "o", "f", "i", "l", "e">>,
      <<"e", "x", "p", "l", "a", "i", "n">>,
      <<"u", "n", "i", "o", "n">> }

\* Keyword kw stands at index i of s as a keyword of its own, in any letter case:
\* it does not continue a word, and a keyword that ends in a letter is not continued
\* by one ("offset" holds no SET; "apoc." is complete at its dot).
KeywordAt(s, i, kw) ==
    LET e == MatchEnd(s, i, kw, 1)
    IN  /\ e # 0
        /\ (i = 1 \/ ~IsWord(s[i - 1]))
        /\ (IsWord(kw[Len(kw)]) => (e > Len(s) \/ ~IsWord(s[e])))

ContainsDenyKeyword(s) ==
    \E i \in 1..Len(s) : \E kw \in DenyKeywords : KeywordAt(s, i, kw)

BeginsWithReadOnlyKeyword(line) ==
    \E kw \in ReadOnlyKeywords : KeywordAt(line, 1, kw)

\* C1: every query that contains a deny-listed keyword anywhere in its text, in any
\* letter case, is judged unsafe by is_safe_cypher.
C1_DenyKeywordRejected ==
    (vsafe # "none" /\ ContainsDenyKeyword(vq)) => vsafe = "unsafe"

\* C3: a query without a deny-listed keyword is judged safe exactly when every
\* non-empty trimmed line begins with a read-only clause keyword.
C3_AllowListPerLine ==
    (vsafe # "none" /\ ~ContainsDenyKeyword(vq)) =>
        (vsafe = "safe" <=>
            \A k \in 1..Len(StrippedLines(vq)) :
                BeginsWithReadOnlyKeyword(StrippedLines(vq)[k]))

\* C3's case: a query of several lines, free of deny-listed keywords, whose first line
\* begins with a read-only keyword, is judged unsafe for a later line.
C3_Witness ==
    /\ vsafe = "unsafe"
    /\ ~ContainsDenyKeyword(vq)
    /\ Len(StrippedLines(vq)) >= 2
    /\ BeginsWithReadOnlyKeyword(StrippedLines(vq)[1])


\* C22: the validators of src/app.py and of src/app_test.py return the same verdict on
\* every query: no query is rejected by one and accepted by the other.
C22_ValidatorsAgree ==
    (vsafe # "none" /\ vsafeTest # "none") => vsafe = vsafeTest

(***************************************************************************)
(* Claims about the repair engine (checked under SpecFix).                 *)
(***************************************************************************)

LowerSeq(s) == [k \in 1..Len(s) |-> Lower(s[k])]

\* The index after the longest run of non-whitespace characters that starts at i.
SkipNonSpace(s, i) == SkipRun([k \in 1..Len(s) |-> ~IsSpace(s[k])], i)

\* An UNWIND <expr> AS <var> clause starts at index i of s and WHERE follows it
\* immediately: the index of that WHERE (0: no such clause), <expr> and <var>.
UnwindThenWhere(s, i) ==
    LET a == IF i = 1 \/ ~IsWord(s[i - 1])
             THEN MatchEnd(s, i, <<"u", "n", "w", "i", "n", "d", WS>>, 1) ELSE 0
        b == IF a = 0 THEN 0 ELSE SkipNonSpace(s, a)
        c == IF b = 0 \/ b = a THEN 0 ELSE MatchEnd(s, b, <<WS, "a", "s", WS>>, 1)
        d == IF c = 0 THEN 0 ELSE SkipWord(s, c)
        w == IF d = 0 \/ d = c THEN 0 ELSE MatchEnd(s, d, <<WS>>, 1)
        e == IF w = 0 THEN 0 ELSE MatchEnd(s, w, <<"w", "h", "e", "r", "e">>, 1)
    IN  IF e = 0 \/ (e <= Len(s) /\ IsWord(s[e]))
        THEN [where |-> 0, expr |-> <<>>, var |-> <<>>]
        ELSE [where |-> w, expr |-> SubSeq(s, a, b - 1), var |-> SubSeq(s, c, d - 1)]

\* The variables v bound as (v:Case before index i of s.
CaseVarsBefore(s, i) ==
    { LowerSeq(SubSeq(s, j + 1, SkipWord(s, j + 1) - 1)) :
        j \in { j \in 1..(i - 1) :
                  /\ s[j] = "("
                  /\ SkipWord(s, j + 1) > j + 1
                  /\ MatchEnd(s, SkipWord(s, j + 1),
                              <<WS0, ":", WS0, "c", "a", "s", "e">>, 1) \in 1..i } }

RECURSIVE SplitItems(_, _)
\* The comma-separated items of s from index i on, each stripped and in lower case.
SplitItems(s, i) ==
    IF i > Len(s) + 1 THEN {}
    ELSE LET j == CHOOSE j \in i..(Len(s) + 1) :
                      /\ (j = Len(s) + 1 \/ s[j] = ",")
                      /\ \A k \in i..(j - 1) : s[k] # ","
         IN  {LowerSeq(Strip(SubSeq(s, i, j - 1)))} \cup SplitItems(s, j + 1)

\* out holds UNWIND expr AS var WITH <items> WHERE, the items naming var and every
\* variable of keep.
HasWithBetween(out, expr, var, keep) ==
    \E j \in 1..Len(out) :
        LET head == <<"u", "n", "w", "i", "n", "d", WS>> \o LowerSeq(expr)
                        \o <<WS, "a", "s", WS>> \o LowerSeq(var)
                        \o <<WS, "w", "i", "t", "h", WS>>
            e == MatchEnd(out, j, head, 1)
        IN  /\ e # 0
            /\ \E w \in e..Len(out) :
                  /\ MatchEnd(out, w, <<WS, "w", "h", "e", "r", "e">>, 1) # 0
                  /\ \A k \in e..(w - 1) : ~IsSpace(out[k]) \/ out[k - 1] = ","
                  /\ LET items == SplitItems(SubSeq(out, e, w - 1), 1)
                     IN  LowerSeq(var) \in items /\ keep \subseteq items

\* C10: for every candidate in which an UNWIND <expr> AS <var> clause is immediately
\* followed by WHERE, auto_fix_cypher returns a query with a WITH projection of <var>
\* between that UNWIND and the WHERE, which keeps every Case variable bound earlier.
C10_UnwindWhereGetsWith ==
    fout # <<>> =>
        \A i \in 1..Len(fq) :
            LET u == UnwindThenWhere(fq, i)
            IN  u.where # 0 =>
                    HasWithBetween(fout[1], u.expr, u.var, CaseVarsBefore(fq, i))

\* s holds head, then later 的案例中.
HoldsPhrase(s, head) ==
    \E i \in 1..Len(s), j \in 1..Len(s) :
        LitAt(s, i, head) /\ j >= i + Len(head) /\ LitAt(s, j, DeAnLiZhong)

\* s holds, in any case, UNWIND <expr> AS <var> WHERE with only white space between
\* the parts.
HoldsUnwindWhere(s) ==
    \E i \in 1..Len(s) :
        LET a == MatchEnd(s, i, <<"u", "n", "w", "i", "n", "d", WS>>, 1)
            b == IF a = 0 THEN 0 ELSE SkipNonSpace(s, a)
            c == IF b = 0 THEN 0 ELSE MatchEnd(s, b, <<WS, "a", "s", WS>>, 1)
            d == IF c = 0 THEN 0 ELSE SkipWord(s, c)
        IN  d # 0 /\ MatchEnd(s, d, <<WS, "w", "h", "e", "r", "e">>, 1) # 0

\* The words of s: its longest runs of characters that are not white space.
WordsOf(s) ==
    LET starts == SelectSeq([k \in 1..Len(s) |-> k],
                            LAMBDA k : ~IsSpace(s[k]) /\ (k = 1 \/ IsSpace(s[k - 1])))
    IN  [n \in 1..Len(starts) |-> SubSeq(s, starts[n], SkipNonSpace(s, starts[n]) - 1)]

\* C20: for a candidate that holds neither 证型为...的案例中 nor 药方为...的案例中 and no
\* UNWIND ... AS ... WHERE, auto_fix_cypher returns the candidate's words in their
\* order, one space between two of them: no white space at either end, and one space
\* for every run of white space, line breaks included.
C20_PassThroughCollapsesSpace ==
    ( /\ fout # <<>>
      /\ ~HoldsPhrase(fq, ZhengXingWei)
      /\ ~HoldsPhrase(fq, YaoFangWei)
      /\ ~HoldsUnwindWhere(fq) ) =>
        fout[1] = Join(WordsOf(fq), <<" ">>)

\* Such a candidate began with white space and held a line break and an UNWIND.
C20_Witness ==
    /\ fout # <<>>
    /\ ~HoldsPhrase(fq, ZhengXingWei)
    /\ ~HoldsPhrase(fq, YaoFangWei)
    /\ ~HoldsUnwindWhere(fq)
    /\ Len(fq) > 0
    /\ IsSpace(fq[1])
    /\ Contains(fq, <<"\n">>)
    /\ Contains(LowerSeq(fq), <<"u", "n", "w", "i", "n", "d">>)
    /\ fout[1] # fq

(***************************************************************************)
(* Claims about the ask endpoint (checked under Spec).                     *)
(***************************************************************************)

\* The context a request stores: its question, its final query and its result rows.
ContextOf(r) ==
    Some([query |-> req[r].query, cypher |-> req[r].cypher[1],
          results |-> req[r].results[1]])

\* The validators' verdicts on every candidate a request can end with, computed once.
Candidates == RawCyphers \cup { final_of[q][raw] : q \in Questions, raw \in RawCyphers }

safe_of == [c \in Candidates |-> is_safe_cypher(c)]

safe_test_of == [c \in Candidates |-> is_safe_cypher_test(c)]

\* The verdict of the deployed variant's validator on a candidate.
SafeHere(c) == IF variant = "app" THEN safe_of[c] ELSE safe_test_of[c]

\* C2: the graph store is executed only with a query on which is_safe_cypher returned
\* safe earlier in the same request, the executed text is the validated text, and a
\* rejected candidate is never executed, whether the candidate came from a template or
\* from the repair engine.
C2_ExecutedOnlyValidated ==
    \A r \in Requests :
        /\ req[r].executed # None =>
              /\ req[r].verdict = "safe"
              /\ req[r].validated = req[r].executed
              /\ SafeHere(req[r].executed[1])
        /\ req[r].verdict = "unsafe" => req[r].executed = None

\* One request executed a template's query and another one a repaired generator text.
C2_Witness ==
    /\ variant = "app"
    /\ \E r1 \in Requests, r2 \in Requests :
          /\ req[r1].executed # None
          /\ template_of[req[r1].query] # None
          /\ req[r2].executed # None
          /\ template_of[req[r2].query] = None
          /\ req[r2].executed # req[r2].raw_cypher

\* C4: in both variants, a candidate that is_safe_cypher rejects ends the request with
\* HTTP 400 and a detail that holds the rejected query text, not with HTTP 500.
C4_RejectionIsClientError ==
    \A r \in Requests :
        req[r].verdict = "unsafe" =>
            req[r].status = 400 /\ req[r].detail = req[r].cypher

\* C5: two ask requests with the same template-matching question end with the same
\* final query, whatever the generator returned and whatever context the session held.
C5_TemplateIdempotent ==
    variant = "app" =>
        \A r1 \in Requests, r2 \in Requests :
            ( /\ req[r1].cypher # None
              /\ req[r2].cypher # None
              /\ req[r1].query = req[r2].query
              /\ template_of[req[r1].query] # None )
            => req[r1].cypher = req[r2].cypher

\* Two requests asked the same template question; the generator answered them
\* differently and only one of them was given a prior context.
C5_Witness ==
    /\ variant = "app"
    /\ \E r1 \in Requests, r2 \in Requests :
          /\ req[r1].cypher # None
          /\ req[r2].cypher # None
          /\ req[r1].query = req[r2].query
          /\ template_of[req[r1].query] # None
          /\ req[r1].raw_cypher # req[r2].raw_cypher
          /\ req[r1].prev_ctx = None
          /\ req[r2].prev_ctx # None

\* C7: the step that follows a successful execution stores, under the request's
\* session, exactly the request's question, final query and result rows in place of
\* whatever was stored, follow-up or not, and leaves the other sessions alone.
C7_ContextOverwritten ==
    [][ \A r \in Requests :
            (pc[r] = "store" /\ pc'[r] # "store") =>
                /\ LAST_CONTEXT'[req[r].session_id] = ContextOf(r)
                /\ \A s \in Sessions \ {req[r].session_id} :
                       LAST_CONTEXT'[s] = LAST_CONTEXT[s] ]_vars

\* A non-follow-up request has replaced the context another request left in the
\* same session.
C7_Witness ==
    \E r1 \in Requests, r2 \in Requests :
        /\ req[r1].session_id = req[r2].session_id
        /\ pc[r1] = "done" /\ req[r1].status = 200 /\ req[r1].results # None
        /\ pc[r2] = "done" /\ req[r2].status = 200 /\ req[r2].results # None
        /\ ~followup_of[req[r2].query]
        /\ req[r2].query # req[r1].query
        /\ LAST_CONTEXT[req[r2].session_id] = ContextOf(r2)

\* C8: in both variants, the generator is given the session's stored context if and
\* only if the trimmed question starts with a follow-up marker; every other question
\* is generated without history.
C8_ContextIffFollowup ==
    [][ \A r \in Requests :
            (pc[r] = "idle" /\ pc'[r] = "llm") =>
                req'[r].prev_ctx = IF followup_of[req'[r].query]
                                   THEN LAST_CONTEXT[req'[r].session_id]
                                   ELSE None ]_vars

\* C9 (as stated): a generator failure ends the request in a server error without a
\* retry, and the template override that applies to the question has already run.
C9_TemplateRanBeforeFailure ==
    variant = "app" =>
        \A r \in Requests :
            (req[r].gen_failed /\ template_of[req[r].query] # None) =>
                /\ req[r].status = 500
                /\ req[r].gen_calls <= 1
                /\ req[r].cypher # None

\* C9 (amended): a generator failure, configured or not, ends the request in a server
\* error after at most one generator call; no template has run by then, so the request
\* has no final query and nothing is validated or executed, template question or not.
C9_FailureEndsRequest ==
    \A r \in Requests :
        req[r].gen_failed =>
            /\ pc[r] = "done"
            /\ req[r].status = 500
            /\ req[r].gen_calls <= 1
            /\ req[r].raw_cypher = None
            /\ req[r].cypher = None
            /\ req[r].validated = None
            /\ req[r].executed = None

\* The generator was configured, its call failed, and the question matches a template.
C9_Witness ==
    /\ variant = "app"
    /\ \E r \in Requests :
          /\ req[r].gen_failed
          /\ req[r].gen_calls = 1
          /\ template_of[req[r].query] # None
          /\ req[r].status = 500

(***************************************************************************)
(* Claims about the template override (checked under SpecBuild).           *)
(***************************************************************************)

\* The question of the scenario: 在证型为肺热的案例中有哪些药方
ScenarioQuestion ==
    <<"zai4", "zheng4", "xing2", "wei2", "fei4", "re4", "de", "an4", "li4", "zhong1", "you3",
      "na3", "xie1", "yao4", "fang1">>

FeiRe == <<"fei4", "re4">>    \* 肺热

AsksPrescription(q) == Contains(q, YaoFang) \/ Contains(q, ChuFang)

\* The pairs <<i, j>> with 证型为 at i, 的案例中 at j and a non-empty X between them.
NamePairs(q) ==
    { p \in (1..Len(q)) \X (1..Len(q)) :
        /\ LitAt(q, p[1], ZhengXingWei)
        /\ p[2] > p[1] + Len(ZhengXingWei)
        /\ LitAt(q, p[2], DeAnLiZhong) }

NameAt(q, p) == SubSeq(q, p[1] + Len(ZhengXingWei), p[2] - 1)

\* The pairs whose X holds no line break.
LinePairs(q) ==
    { p \in NamePairs(q) : \A k \in 1..Len(NameAt(q, p)) : NameAt(q, p)[k] \notin LineBreaks }

\* The first 证型为 that has such an X, and the nearest 的案例中 after it.
FirstPair(q) ==
    CHOOSE p \in LinePairs(q) :
        \A o \in LinePairs(q) : p[1] < o[1] \/ (p[1] = o[1] /\ p[2] <= o[2])

\* C6 (as stated): for a question that contains 证型为X的案例中 together with 药方 or
\* 处方, the final query is the zhengxing-to-prescription query with the name X.
C6_TemplateNameIsX ==
    (bout # <<>> /\ AsksPrescription(bq) /\ NamePairs(bq) # {}) =>
        \E p \in NamePairs(bq) : bout[1] = CypherZhengxingPrescription(NameAt(bq, p))

\* C6 (amended): for the scenario question the final query is the zhengxing-to-
\* prescription query for 肺热; for every question with 药方 or 处方 and a 证型为X的案例中
\* whose X is non-empty and on one line, it is that query for X (the shortest one after
\* the first such 证型为) stripped of surrounding white space and of single quotes,
\* whatever the generator returned.
C6_TemplateNameIsCleanedX ==
    /\ (bout # <<>> /\ bq = ScenarioQuestion) =>
           bout[1] = CypherZhengxingPrescription(FeiRe)
    /\ (bout # <<>> /\ AsksPrescription(bq) /\ LinePairs(bq) # {}) =>
           bout[1] = CypherZhengxingPrescription(
                         RemoveChars(Strip(NameAt(bq, FirstPair(bq))), {"'"}))

\* The final query was built for a question whose X is quoted, while the generator's
\* text was another query.
C6_Witness ==
    /\ bout # <<>>
    /\ AsksPrescription(bq)
    /\ LinePairs(bq) # {}
    /\ Contains(NameAt(bq, FirstPair(bq)), <<"'">>)
    /\ bout[1] # auto_fix_cypher(braw)

(***************************************************************************)
(* Claims about the session context and the dry run (checked under Spec).  *)
(***************************************************************************)

\* The request's store execution has returned rows.
Executed(r) == req[r].executed # None /\ req[r].results # None

\* C11: the context of a session changes only in the store step of a request on that
\* session whose execution returned rows, and then to that request's context, or in a
\* reset of that session, which changes nothing else; a dry-run request, a rejected
\* request and a request whose generator call or execution failed never reach the
\* store step.
C11_ContextChangesOnlyByStoreOrReset ==
    [][ /\ \A r \in Requests :
              ( \/ req[r].dryrun
                \/ req[r].verdict = "unsafe"
                \/ req[r].gen_failed
                \/ ~Executed(r) ) => pc[r] # "store"
        /\ \A s \in Sessions :
              LAST_CONTEXT'[s] # LAST_CONTEXT[s] =>
                  \/ \E r \in Requests :
                        /\ pc[r] = "store" /\ pc'[r] # "store"
                        /\ req[r].session_id = s
                        /\ Executed(r)
                        /\ LAST_CONTEXT'[s] = ContextOf(r)
                  \/ /\ LAST_CONTEXT'[s] = None
                     /\ UNCHANGED <<pc, req>>
                     /\ \A o \in Sessions \ {s} : LAST_CONTEXT'[o] = LAST_CONTEXT[o] ]_vars

\* A follow-up request read the context another request had stored in its session,
\* its execution failed, and the session still holds the context it read.
C11_Witness ==
    \E r1 \in Requests, r2 \in Requests :
        /\ r1 # r2
        /\ req[r1].session_id = req[r2].session_id
        /\ Executed(r1)
        /\ req[r2].prev_ctx = ContextOf(r1)
        /\ pc[r2] = "done" /\ req[r2].executed # None /\ req[r2].results = None
        /\ LAST_CONTEXT[req[r2].session_id] = ContextOf(r1)

\* auto_fix_cypher on the generator's texts, computed once.
fix_of == [raw \in RawCyphers |-> auto_fix_cypher(raw)]

\* C12: a request with the dry-run flag is never executed against the graph store and
\* stores no context; when it ends with a response, the response carries the final
\* query (the template's, else the repaired generator text; in src/app_test.py the
\* generator text), and the validator has accepted exactly that text; a final query the
\* validator rejects ends the dry run with an error.
C12_DryRunNeverExecutes ==
    \A r \in Requests :
        req[r].dryrun =>
            /\ req[r].executed = None
            /\ req[r].results = None
            /\ pc[r] \notin {"run", "store", "format"}
            /\ (pc[r] = "done" /\ req[r].status = 200) =>
                  /\ req[r].cypher # None
                  /\ req[r].validated = req[r].cypher
                  /\ SafeHere(req[r].cypher[1])
                  /\ req[r].cypher[1] =
                        IF variant = "app_test" THEN req[r].raw_cypher[1]
                        ELSE IF template_of[req[r].query] # None
                        THEN template_of[req[r].query][1]
                        ELSE fix_of[req[r].raw_cypher[1]]
            /\ (pc[r] = "done" /\ req[r].cypher # None /\ ~SafeHere(req[r].cypher[1])) =>
                  /\ req[r].verdict = "unsafe"
                  /\ req[r].status \in {400, 500}
                  /\ req[r].validated = None

\* One dry run returned a repaired generator text, another one was rejected.
C12_Witness ==
    /\ variant = "app"
    /\ \E r1 \in Requests, r2 \in Requests :
          /\ req[r1].dryrun /\ pc[r1] = "done" /\ req[r1].status = 200
          /\ template_of[req[r1].query] = None
          /\ req[r1].cypher # req[r1].raw_cypher
          /\ req[r2].dryrun /\ pc[r2] = "done" /\ req[r2].verdict = "unsafe"

\* C15: a reset of a session leaves that session without a context and every other
\* session, and every request, as it was, so that a reset of a session without a
\* context changes nothing; and a request that starts on a session without a context,
\* follow-up or not, hands no prior context to the generator.
C15_ResetRemovesContext ==
    [][ /\ \A sid \in Sessions :
              reset_session(sid) =>
                  /\ LAST_CONTEXT'[sid] = None
                  /\ \A o \in Sessions \ {sid} : LAST_CONTEXT'[o] = LAST_CONTEXT[o]
                  /\ UNCHANGED <<pc, req>>
                  /\ LAST_CONTEXT[sid] = None => UNCHANGED vars
        /\ (UNCHANGED <<pc, req>> /\ LAST_CONTEXT' # LAST_CONTEXT) =>
              \E sid \in Sessions :
                  LAST_CONTEXT' = [LAST_CONTEXT EXCEPT ![sid] = None]
        /\ \A r \in Requests :
              ( /\ pc[r] = "idle" /\ pc'[r] = "llm"
                /\ LAST_CONTEXT[req'[r].session_id] = None ) =>
                  req'[r].prev_ctx = None ]_vars

\* A request stored a context in its session, the session has none any more, and a
\* follow-up question on that session has gone to the generator without a context.
C15_Witness ==
    \E r1 \in Requests, r2 \in Requests :
        /\ r1 # r2
        /\ req[r1].session_id = req[r2].session_id
        /\ pc[r1] = "done" /\ req[r1].status = 200 /\ Executed(r1)
        /\ LAST_CONTEXT[req[r1].session_id] = None
        /\ pc[r2] = "build"
        /\ followup_of[req[r2].query]
        /\ req[r2].prev_ctx = None

\* Two follow-up requests on one session have both stored their context, and neither
\* was given the context of the other.
Raced(r1, r2) ==
    /\ r1 # r2
    /\ req[r1].session_id = req[r2].session_id
    /\ pc[r1] = "done" /\ req[r1].status = 200 /\ Executed(r1)
    /\ pc[r2] = "done" /\ req[r2].status = 200 /\ Executed(r2)
    /\ followup_of[req[r1].query] /\ followup_of[req[r2].query]
    /\ req[r1].prev_ctx # ContextOf(r2)
    /\ req[r2].prev_ctx # ContextOf(r1)

\* C17 (as stated): after two concurrent requests on one session have interleaved
\* their reads and overwrites, the context the session holds is the output of neither.
C17_ContextOfNeitherRequest ==
    \A r1 \in Requests, r2 \in Requests :
        (Raced(r1, r2) /\ LAST_CONTEXT[req[r1].session_id] # None) =>
            LAST_CONTEXT[req[r1].session_id] \notin {ContextOf(r1), ContextOf(r2)}

\* C17 (amended): the read of the prior context and the overwrite are separate steps
\* that other requests interleave with, but the overwrite is one assignment of the
\* request's own question, final query and rows: the context a session holds is
\* always the complete output of one request on that session whose execution returned.
C17_ContextIsOneRequestsOutput ==
    \A s \in Sessions :
        LAST_CONTEXT[s] # None =>
            \E r \in Requests :
                /\ req[r].session_id = s
                /\ Executed(r)
                /\ pc[r] \in {"store", "format", "done"}
                /\ LAST_CONTEXT[s] = ContextOf(r)

\* A follow-up request that read no context is about to overwrite the context that
\* another request stored in its session after that read.
C17_Witness ==
    \E r1 \in Requests, r2 \in Requests :
        /\ r1 # r2
        /\ req[r1].session_id = req[r2].session_id
        /\ pc[r1] = "store"
        /\ followup_of[req[r1].query]
        /\ req[r1].prev_ctx = None
        /\ Executed(r2)
        /\ LAST_CONTEXT[req[r1].session_id] = ContextOf(r2)
        /\ ContextOf(r1) # ContextOf(r2)

\* The positions of the handler in the order of the steps: the generator call, the
\* template override or the repair, the validation, the store execution, the context
\* persistence and the formatting; a step may also end the request.
StepOrder ==
    { <<"idle", "llm">>, <<"llm", "build">>, <<"build", "check">>, <<"check", "run">>,
      <<"run", "store">>, <<"store", "format">>, <<"format", "done">>,
      <<"llm", "done">>, <<"check", "done">>, <<"run", "done">> }

\* C19: in both variants, a request goes through its steps in the order generator
\* call, template override or repair, validation, store execution, context
\* persistence, formatting; the generator and the store are called at most once; and a
\* request that has ended has given its caller a response or an error.
C19_StepsInOrderOnce ==
    [][ \A r \in Requests :
            /\ pc'[r] # pc[r] => <<pc[r], pc'[r]>> \in StepOrder
            /\ req'[r].gen_calls <= 1
            /\ req'[r].gen_calls # req[r].gen_calls => pc[r] = "llm"
            /\ req'[r].executed # req[r].executed =>
                   pc[r] = "run" /\ req[r].executed = None
            /\ pc'[r] = "done" => req'[r].status \in {200, 400, 500} ]_vars

(***************************************************************************)
(* Claims about the order and the input of the templates (SpecBuild).      *)
(***************************************************************************)

\* The templates in the order they are tried.
TemplateOrder ==
    << "zhengxing-prescription", "zhengxing-herb", "zhengxing-herb-dose",
       "formula-zhengxing", "formula-disease", "formula-herb",
       "disease-herb", "disease-zhengxing" >>

\* The question carries the markers of the k-th template.
HasMarkers(q, k) ==
    LET has(w) == Contains(q, w)
    IN  CASE k = 1 -> has(ZhengXingWei) /\ (has(YaoFang) \/ has(ChuFang))
          [] k = 2 -> has(ZhengXingWei) /\ has(ZhongYao) /\ ~has(JiLiang) /\ ~has(PaoZhi)
          [] k = 3 -> has(ZhengXingWei) /\ has(ZhongYao) /\ (has(JiLiang) \/ has(PaoZhi))
          [] k = 4 -> has(YaoFangWei) /\ has(ZhengXing)
          [] k = 5 -> has(YaoFangWei) /\ (has(JiBing) \/ has(BingMing))
          [] k = 6 -> has(YaoFangWei) /\ (has(ZhongYao) \/ has(YaoWu))
          [] k = 7 -> has(JiBingWei) /\ has(ZhongYao)
          [] k = 8 -> has(JiBingWei) /\ has(ZhengXing)

\* The name the k-th template looks for in the question, <<>> when there is none.
NameFor(q, k) ==
    CleanName(LazyGroup(q, IF k <= 3 THEN ZhengXingWei
                           ELSE IF k <= 6 THEN YaoFangWei ELSE JiBingWei,
                        DeAnLiZhong))

\* The k-th template finds its names in the question.
HasNames(q, k) ==
    /\ LazyGroup(q, IF k <= 3 THEN ZhengXingWei
                    ELSE IF k <= 6 THEN YaoFangWei ELSE JiBingWei, DeAnLiZhong) # <<>>
    /\ k = 3 => HerbGroup(q) # <<>>

\* The canonical query of the k-th template for the names in the question.
QueryOf(q, k) ==
    CASE k = 1 -> CypherZhengxingPrescription(NameFor(q, k))
      [] k = 2 -> CypherZhengxingHerb(NameFor(q, k))
      [] k = 3 -> CypherZhengxingHerbDose(NameFor(q, k), CutQualifier(Strip(HerbGroup(q))))
      [] k = 4 -> CypherFormulaZhengxing(NameFor(q, k))
      [] k = 5 -> CypherFormulaDisease(NameFor(q, k))
      [] k = 6 -> CypherFormulaHerb(NameFor(q, k))
      [] k = 7 -> CypherDiseaseHerb(NameFor(q, k))
      [] k = 8 -> CypherDiseaseZhengxing(NameFor(q, k))

\* The templates whose markers the question carries, and those of them that find
\* their names in it.
Marked(q) == { k \in 1..Len(TemplateOrder) : HasMarkers(q, k) }

Matching(q) == { k \in Marked(q) : HasNames(q, k) }

\* Steps 1 and 3 of the repair: the UNWIND ... WHERE rewrite and the white space.
StructuralRepair(cql) ==
    CollapseSpaces(SubUnwindWhere(Strip(cql), 1,
                                  IF HasCaseC(Strip(cql)) THEN <<"c", ",", " ">>
                                  ELSE <<>>))

\* C16: for a question no template matches, the final query is the structural repair
\* of the generator's text, whatever phrases that text holds.
C16_OverrideFromQuestionOnly ==
    (bout # <<>> /\ Matching(bq) = {}) => bout[1] = StructuralRepair(braw)

\* C18 (as stated): for a question that carries the markers of several templates, the
\* final query is the canonical query of the earliest template, in the order above,
\* that matches the question.
C18_EarliestMatchingTemplate ==
    (bout # <<>> /\ Cardinality(Marked(bq)) > 1 /\ Matching(bq) # {}) =>
        bout[1] = QueryOf(bq, Least(Matching(bq)))

\* C18 (amended): only the earliest template, in the order above, whose markers the
\* question carries is tried: the final query is its canonical query when it finds
\* its names in the question; when it does not, or when no template's markers are
\* there, no other template is tried and the final query is the repair of the
\* generator's text.
C18_EarliestMarkedTemplate ==
    bout # <<>> =>
        bout[1] = IF Marked(bq) # {} /\ HasNames(bq, Least(Marked(bq)))
                  THEN QueryOf(bq, Least(Marked(bq)))
                  ELSE auto_fix_cypher(braw)

\* A question with the markers of several templates got the query of the earliest
\* of them, which is not the generator's text repaired.
C18_Witness ==
    /\ bout # <<>>
    /\ Cardinality(Marked(bq)) > 1
    /\ HasNames(bq, Least(Marked(bq)))
    /\ Least(Marked(bq)) > 1
    /\ \E k \in Matching(bq) : k # Least(Marked(bq)) /\ QueryOf(bq, k) # bout[1]
    /\ bout[1] # auto_fix_cypher(braw)

(***************************************************************************)
(* Claims about the result formatter (checked under SpecFormat).           *)
(***************************************************************************)

\* The first row of the result set has a column named 频次.
FirstRowHasFrequency ==
    arows # <<>> /\ \E k \in 1..Len(arows[1]) : arows[1][k][1] = PinCi

RECURSIVE IsResultValue(_)
\* A value of a result row as the data model has it: a scalar, or an array of them.
IsResultValue(v) ==
    \/ v[1] \in {"str", "int", "null"}
    \/ v[1] = "list" /\ \A i \in 1..Len(v[2]) : IsResultValue(v[2][i])

\* Every value of the result set is one.
HoldsResultValues ==
    \A i \in 1..Len(arows) : \A k \in 1..Len(arows[i]) : IsResultValue(arows[i][k][2])

LinesOf(s) ==
    LET cuts == <<0>> \o SelectSeq([k \in 1..Len(s) |-> k], LAMBDA k : s[k] = "\n")
                     \o <<Len(s) + 1>>
    IN  [n \in 1..(Len(cuts) - 1) |-> SubSeq(s, cuts[n] + 1, cuts[n + 1] - 1)]

\* The text that follows the introduction (and, in the table layout, the header).
RowsText ==
    LET intro == IF aout[1].shape = "table" THEN TableIntro(aq) ELSE ListIntro(arows)
    IN  SubSeq(aout[1].text, Len(intro) + 1, Len(aout[1].text))

\* C14: for a non-empty result set the rendered rows are exactly one line per row, in
\* input order: in the table layout line i holds the first column's value and the 频次
\* value of row i, in the list layout it holds the serialization of row i.
C14_OneLinePerRow ==
    (aout # <<>> /\ arows # <<>> /\ ~aout[1].raised) =>
        /\ Len(LinesOf(RowsText)) = Len(arows)
        /\ \A i \in 1..Len(arows) :
              IF aout[1].shape = "table"
              THEN /\ Contains(LinesOf(RowsText)[i], PyStr(arows[i][1][2]))
                   /\ Contains(LinesOf(RowsText)[i], PyStr(ValueOf(arows[i], PinCi)))
              ELSE Contains(LinesOf(RowsText)[i], JsonRow(arows[i]))


(***************************************************************************)
(* Claims about the query handed to the validator (checked under          *)
(* SpecBuild).                                                             *)
(***************************************************************************)

\* The generator's text has several lines, its first line begins with a read-only
\* clause keyword, a later line does not, and no deny-listed keyword is in it.
ContinuedOverLines(raw) ==
    LET ls == StrippedLines(raw)
    IN  /\ Len(ls) >= 2
        /\ BeginsWithReadOnlyKeyword(ls[1])
        /\ \E k \in 2..Len(ls) : ~BeginsWithReadOnlyKeyword(ls[k])
        /\ ~ContainsDenyKeyword(raw)

\* C23: when no template fires, the query handed to is_safe_cypher holds no line
\* break, so the allow-list is checked at the first keyword of the whole query only:
\* a generator text of several lines without a deny-listed keyword, with a later line
\* that does not begin with a read-only keyword, is accepted when its first line
\* begins with one.
C23_ValidatedQueryIsOneLine ==
    (bout # <<>> /\ TemplateOverride(bq) = None) =>
        /\ \A k \in 1..Len(bout[1]) : bout[1][k] \notin LineBreaks
        /\ Len(StrippedLines(bout[1])) <= 1
        /\ ContinuedOverLines(braw) => is_safe_cypher(bout[1])

\* No template fired for the question, and a generator text that is_safe_cypher
\* rejects line by line was accepted as the one line auto_fix_cypher made of it.
C23_Witness ==
    /\ bout # <<>>
    /\ TemplateOverride(bq) = None
    /\ ContinuedOverLines(braw)
    /\ ~is_safe_cypher(braw)
    /\ bout[1] # braw
    /\ is_safe_cypher(bout[1])

(***************************************************************************)
(* Claims about failed requests and empty candidates (checked under Spec). *)
(***************************************************************************)

\* The request has returned an error to its caller.
Failed(r) == pc[r] = "done" /\ req[r].status \in {400, 500}

\* No request but r has been made: the context map was empty when r started.
Alone(r) == \A r2 \in Requests \ {r} : pc[r2] = "idle"

\* C21: an ask request that returns an error leaves the session context map as it
\* was when the request started, also when the failure comes after the execution
\* (format_answer raises). Stated for a request that runs with no other request
\* before or beside it, so that the map it started with is the empty map.
C21_ErrorLeavesContext ==
    \A r \in Requests :
        (Failed(r) /\ Alone(r)) => LAST_CONTEXT = [s \in Sessions |-> None]

\* The queries of at most three characters with no non-empty line.
BlankQueries == UNION { [1..n -> SpaceChars] : n \in 0..3 }

\* is_safe_cypher judges every one of them safe (computed once).
BlankQueriesSafe == \A s \in BlankQueries : is_safe_cypher(s)

\* The candidate of request r has no non-empty line: all of it is white space.
BlankCandidate(r) ==
    /\ req[r].cypher # None
    /\ \A k \in 1..Len(req[r].cypher[1]) : IsSpace(req[r].cypher[1][k])

\* C24: is_safe_cypher judges a query with no non-empty line (empty, or white space
\* only) safe, and ask, given such a final candidate, passes the check and, unless the
\* request is a dry run, hands the candidate to the graph store.
C24_BlankQueryIsExecuted ==
    /\ BlankQueriesSafe
    /\ \A r \in Requests :
           (BlankCandidate(r) /\ pc[r] \in {"run", "store", "format", "done"}) =>
               /\ req[r].verdict = "safe"
               /\ req[r].validated = req[r].cypher
               /\ req[r].status # 400
               /\ (~req[r].dryrun /\ pc[r] # "run") => req[r].executed = req[r].cypher

\* src/app.py's ask was given an empty completion for a question without a template,
\* and the empty query went to the graph store.
C24_Witness ==
    /\ variant = "app"
    /\ \E r \in Requests :
          /\ BlankCandidate(r)
          /\ ~req[r].dryrun
          /\ template_of[req[r].query] = None
          /\ req[r].verdict = "safe"
          /\ req[r].executed = Some(<<>>)

=============================================================================
